---- MODULE Spec2Model ----
(***************************************************************************)
(* Model of the onboarding assistant of src/chatbot.py: the conversation   *)
(* turn of OnboardingAssistant.send_message, the tool dispatch of          *)
(* _handle_tool_calls, the follow-up of _get_final_response and the        *)
(* retrying AzureOpenAIClient.get_chat_completion.                         *)
(*                                                                         *)
(* A text is a run-length encoded string: a sequence of runs [c, n], the   *)
(* character (or named chunk of text) c repeated n times.  Python's None   *)
(* is the one-run text whose run has length 0, which no string has.        *)
(***************************************************************************)
EXTENDS Integers, Sequences, FiniteSets, TLC

(***************************************************************************)
(* Bounds of the model.                                                    *)
(***************************************************************************)
MaxTurns == 2      \* send_message calls in one behaviour
MaxAdmin == 1      \* set_additional_context / reset_conversation calls
MaxClock == 64     \* ticks of the clock in one behaviour
MaxCompletions == 2  \* get_chat_completion calls of one thread
RaceWindow == 5    \* ticks of the clock in a behaviour of two threads

(***************************************************************************)
(* Program constants.                                                      *)
(***************************************************************************)
max_retries == 3           \* get_chat_completion(max_retries: int = 3)
MaxMessageLength == 5000   \* _validate_input: len(message) > 5000
MaxLineBreaks == 50        \* _validate_input: message.count('\n') > 50
NumFewShot == 24           \* len(Prompt.FEW_SHOT_EXAMPLES)
TicksPerSecond == 20       \* time is counted in ticks of 0.05 s
min_request_interval == 2  \* _min_request_interval = 0.1, in ticks

(***************************************************************************)
(* Texts.                                                                  *)
(***************************************************************************)
Tok(s) == <<[c |-> s, n |-> 1]>>

Rep(ch, k) == IF k = 0 THEN <<>> ELSE <<[c |-> ch, n |-> k]>>

None == <<[c |-> "None", n |-> 0]>>

\* bool(x) of an Optional[str]: None and "" are falsy
Truthy(t) == t # None /\ t # <<>>

IsSpace(ch) == ch \in {" ", "\n"}

RECURSIVE lstrip(_)
lstrip(t) == IF t # <<>> /\ IsSpace(Head(t).c) THEN lstrip(Tail(t)) ELSE t

RECURSIVE rstrip(_)
rstrip(t) ==
    IF t # <<>> /\ IsSpace(t[Len(t)].c) THEN rstrip(SubSeq(t, 1, Len(t) - 1)) ELSE t

\* str.strip()
strip(t) == rstrip(lstrip(t))

RECURSIVE len(_)
len(t) == IF t = <<>> THEN 0 ELSE Head(t).n + len(Tail(t))

RECURSIVE count(_, _)
count(t, ch) ==
    IF t = <<>> THEN 0
    ELSE (IF Head(t).c = ch THEN Head(t).n ELSE 0) + count(Tail(t), ch)

\* Python's a + b on strings
Concat(a, b) == a \o b

Last(s) == s[Len(s)]

RECURSIVE Pow2(_)
Pow2(i) == IF i = 0 THEN 1 ELSE 2 * Pow2(i - 1)

(***************************************************************************)
(* Conversation messages.  Every message carries the four keys; a key the  *)
(* Python dict does not have is the empty sequence or the empty string.    *)
(***************************************************************************)
Msg(role, content) ==
    [role |-> role, content |-> content, tool_calls |-> <<>>, tool_call_id |-> ""]

ToolCallsMsg(content, calls) ==
    [role |-> "assistant", content |-> content, tool_calls |-> calls,
     tool_call_id |-> ""]

ToolMsg(content, id) ==
    [role |-> "tool", content |-> content, tool_calls |-> <<>>, tool_call_id |-> id]

SYSTEM_PROMPT == Tok("SYSTEM_PROMPT")

FEW_SHOT_EXAMPLES ==
    [i \in 1..NumFewShot |->
        Msg(IF i % 2 = 1 THEN "user" ELSE "assistant",
            <<[c |-> "FEW_SHOT_EXAMPLE", n |-> i]>>)]

\* reset_conversation: the history it builds
InitialHistory == <<Msg("system", SYSTEM_PROMPT)>> \o FEW_SHOT_EXAMPLES

\* mutant: the examples are added to the history as it is
reset_conversation_Extend(h) ==
    (IF h = <<>> THEN <<Msg("system", SYSTEM_PROMPT)>> ELSE h) \o FEW_SHOT_EXAMPLES

\* reset_conversation: the history is replaced, whatever it was
reset_conversation(h) == InitialHistory

(***************************************************************************)
(* Canned replies.                                                         *)
(***************************************************************************)
PleaseEnterMessage == Tok("Please enter a message.")
PleaseEnterNonEmpty == Tok("Please enter a non-empty message.")
MessageTooLong == Tok("Message is too long. Please keep it under 5000 characters.")
TooManyLineBreaks ==
    Tok("Message has too many line breaks. Please format it more concisely.")
TroubleConnecting ==
    Tok("I'm having trouble connecting to my knowledge base right now. Please try again in a few moments.")
NoProperResponse ==
    Tok("I didn't receive a proper response. Please try rephrasing your question.")
TroubleAIService ==
    Tok("I'm having trouble connecting to my AI service. Please check your internet connection and try again.")
UnexpectedError ==
    Tok("I encountered an unexpected error. Please try again with a different question.")
TechnicalDifficulties ==
    Tok("I'm experiencing technical difficulties. Please try again in a moment.")
RetrievedPrefix ==
    Tok("I've retrieved the information you requested. Here are the details:\n\n")
CouldNotFormat ==
    Tok("I've looked up the information but couldn't format a proper response. Please try rephrasing your question.")
ErrorFormatting ==
    Tok("I found some information but encountered an error while formatting the response. Please try asking your question again.")

(***************************************************************************)
(* Character strings, for the texts the name search looks into.            *)
(***************************************************************************)
Str(chars) == [i \in DOMAIN chars |-> [c |-> chars[i], n |-> 1]]

RECURSIVE Expand(_)
Expand(t) ==
    IF t = <<>> THEN <<>>
    ELSE [i \in 1..Head(t).n |-> Head(t).c] \o Expand(Tail(t))

LowerChar(ch) ==
    CASE ch = "N" -> "n" [] ch = "V" -> "v" [] ch = "S" -> "s" [] ch = "A" -> "a"
      [] ch = "L" -> "l" [] ch = "E" -> "e" [] ch = "X" -> "x" [] ch = "G" -> "g"
      [] ch = "P" -> "p"
      [] OTHER -> ch

\* str.lower(), on the expanded characters
lower(cs) == [i \in DOMAIN cs |-> LowerChar(cs[i])]

\* needle in hay
Contains(hay, needle) ==
    \E i \in 0..(Len(hay) - Len(needle)) :
        SubSeq(hay, i + 1, i + Len(needle)) = needle

\* hay.startswith(needle)
startswith(hay, needle) ==
    Len(needle) <= Len(hay) /\ SubSeq(hay, 1, Len(needle)) = needle

RECURSIVE SplitFrom(_, _)
SplitFrom(cs, word) ==
    IF cs = <<>> THEN (IF word = <<>> THEN <<>> ELSE <<word>>)
    ELSE IF IsSpace(Head(cs))
         THEN (IF word = <<>> THEN <<>> ELSE <<word>>) \o SplitFrom(Tail(cs), <<>>)
         ELSE SplitFrom(Tail(cs), Append(word, Head(cs)))

\* str.split(): the whitespace-separated words
split(cs) == SplitFrom(cs, <<>>)

\* ' '.join(words)
RECURSIVE join(_)
join(words) ==
    IF words = <<>> THEN <<>>
    ELSE IF Len(words) = 1 THEN words[1]
    ELSE words[1] \o <<" ">> \o join(Tail(words))

(***************************************************************************)
(* json.dumps of a flat object: one run for each key and one for each      *)
(* value, in the order of the dict.                                        *)
(***************************************************************************)
RECURSIVE JsonDumps(_)
JsonDumps(pairs) ==
    IF pairs = <<>> THEN <<>>
    ELSE <<[c |-> pairs[1][1], n |-> 1]>> \o pairs[1][2] \o JsonDumps(Tail(pairs))

JsonHasKey(t, key) == \E i \in DOMAIN t : t[i] = [c |-> key, n |-> 1]

(***************************************************************************)
(* The knowledge files.  A file is missing, unreadable, malformed (not     *)
(* JSON), a JSON scalar (len() and iteration raise TypeError), a JSON      *)
(* container whose items are not project records, or valid; a valid member *)
(* file holds MemberFixture or, in the state "namesake", a fixture in      *)
(* which two members share a first name.                                   *)
(***************************************************************************)
FileStates ==
    {"missing", "unreadable", "malformed", "scalar", "object", "valid", "namesake"}

NamVuSon == <<"N", "a", "m", " ", "V", "u", " ", "S", "o", "n">>
LanLe == <<"L", "a", "n", " ", "L", "e">>
Engineering == <<"E", "n", "g">>
Sales == <<"S", "a", "l", "e", "s">>

MemberFixture ==
    << [project_code |-> "AIAE001",
        members |-> << [name |-> NamVuSon, department |-> Engineering],
                       [name |-> LanLe, department |-> Sales] >>],
       [project_code |-> "AIAE002",
        members |-> << [name |-> LanLe, department |-> Engineering] >>] >>

\* the try block of an accessor returned text; touched: it went as far as
\* os.path.exists; found: the user_projects it collected
Done(text, touched, found) ==
    [raised |-> FALSE, exc |-> "", value |-> text, accessed |-> touched,
     projects |-> found]

\* the try block of an accessor raised exc, after os.path.exists
Threw(exc) ==
    [raised |-> TRUE, exc |-> exc, value |-> <<>>, accessed |-> TRUE,
     projects |-> <<>>]

\* mutant: only json.JSONDecodeError has an except clause
Handled_JsonOnly(r, payload) ==
    IF r.raised /\ r.exc = "JSONDecodeError"
    THEN [r EXCEPT !.raised = FALSE, !.value = payload]
    ELSE r

\* the except clauses of an accessor, the last of them except Exception:
\* whatever the try block raised, payload is returned
Handled(r, payload) ==
    IF r.raised THEN [r EXCEPT !.raised = FALSE, !.value = payload] ELSE r

\* the try block of get_member_information
member_information_try(files) ==
    CASE files.member = "missing" ->
            Done(JsonDumps(<< <<"error", Tok("Data temporarily unavailable")>>,
                              <<"message", Tok("Member information is currently being updated. Please try again in a few minutes or contact IT support.")>>,
                              <<"contact", Tok("IT Support: it-support@company.com")>> >>),
                 TRUE, <<>>)
      [] files.member = "unreadable" ->
            Done(JsonDumps(<< <<"error", Tok("Access denied")>>,
                              <<"message", Tok("Unable to access member information. Please contact IT support.")>>,
                              <<"contact", Tok("IT Support: it-support@company.com")>> >>),
                 TRUE, <<>>)
      [] files.member = "malformed" -> Threw("JSONDecodeError")
      [] files.member = "scalar" -> Threw("TypeError")
      [] OTHER -> Done(Tok("member_info.json"), TRUE, <<>>)

\* the except clauses of get_member_information
member_information_except(exc) ==
    CASE exc = "JSONDecodeError" ->
            JsonDumps(<< <<"error", Tok("Data format error")>>,
                         <<"message", Tok("Member information file has formatting issues. IT has been notified.")>>,
                         <<"contact", Tok("For immediate assistance: hr@company.com")>> >>)
      [] exc = "PermissionError" ->
            JsonDumps(<< <<"error", Tok("Access denied")>>,
                         <<"message", Tok("Unable to access member information. Please contact IT support.")>>,
                         <<"contact", Tok("IT Support: it-support@company.com")>> >>)
      [] OTHER ->
            JsonDumps(<< <<"error", Tok("System error")>>,
                         <<"message", Tok("An unexpected error occurred. Please try again or contact support.")>>,
                         <<"contact", Tok("Support: support@company.com")>> >>)

\* what json.load gives the lookup to loop over: the items of a container
\* that are not project records are skipped
MemberRecords(state) ==
    CASE state = "valid" -> MemberFixture
      [] state = "namesake" ->
            << [project_code |-> "AIAE001",
                members |-> << [name |-> NamVuSon, department |-> Engineering] >>],
               [project_code |-> "AIAE002",
                members |-> << [name |-> <<"N", "a", "m", " ", "L", "e">>,
                                department |-> Sales] >>] >>
      [] OTHER -> <<>>

\* get_member_information: the text it returns
get_member_information(files) ==
    LET r == member_information_try(files)
    IN Handled(r, member_information_except(r.exc)).value

\* the try block of get_process_information: no os.access test, open raises
process_information_try(files) ==
    CASE files.process = "missing" ->
            Done(JsonDumps(<< <<"error", Tok("Data temporarily unavailable")>>,
                              <<"message", Tok("Process information is currently being updated. Please try again later.")>>,
                              <<"alternative", Tok("For urgent process questions, contact your manager or team lead.")>> >>),
                 TRUE, <<>>)
      [] files.process = "unreadable" -> Threw("PermissionError")
      [] files.process = "malformed" -> Threw("JSONDecodeError")
      [] files.process = "scalar" -> Threw("TypeError")
      [] OTHER -> Done(Tok("processes.json"), TRUE, <<>>)

\* mutant: one payload for every exception
process_information_except_Generic(exc) ==
    JsonDumps(<< <<"error", Tok("System error")>>,
                 <<"message", Tok("Unable to load process information. Please contact your manager for workflow details.")>>,
                 <<"contact", Tok("Manager or Team Lead")>> >>)

\* the except clauses of get_process_information
process_information_except(exc) ==
    CASE exc = "JSONDecodeError" ->
            JsonDumps(<< <<"error", Tok("Data format error")>>,
                         <<"message", Tok("Process information file has formatting issues. Please contact your team lead for process details.")>>,
                         <<"contact", Tok("Team Lead or Manager")>> >>)
      [] OTHER ->
            JsonDumps(<< <<"error", Tok("System error")>>,
                         <<"message", Tok("Unable to load process information. Please contact your manager for workflow details.")>>,
                         <<"contact", Tok("Manager or Team Lead")>> >>)

\* get_process_information: the text it returns
get_process_information(files) ==
    LET r == process_information_try(files)
    IN Handled(r, process_information_except(r.exc)).value

\* the try block of get_techstack_information
techstack_information_try(files) ==
    CASE files.techstack = "missing" ->
            Done(JsonDumps(<< <<"error", Tok("Data temporarily unavailable")>>,
                              <<"message", Tok("Technology stack information is currently being updated.")>>,
                              <<"alternative", Tok("Please ask your team lead about the specific technologies used in your project.")>> >>),
                 TRUE, <<>>)
      [] files.techstack = "unreadable" -> Threw("PermissionError")
      [] files.techstack = "malformed" -> Threw("JSONDecodeError")
      [] files.techstack = "scalar" -> Threw("TypeError")
      [] OTHER -> Done(Tok("techstack.json"), TRUE, <<>>)

\* the except clauses of get_techstack_information
techstack_information_except(exc) ==
    CASE exc = "JSONDecodeError" ->
            JsonDumps(<< <<"error", Tok("Data format error")>>,
                         <<"message", Tok("Technology information file has formatting issues. Please ask your team about the tech stack.")>>,
                         <<"contact", Tok("Team Lead or Senior Developer")>> >>)
      [] OTHER ->
            JsonDumps(<< <<"error", Tok("System error")>>,
                         <<"message", Tok("Unable to load technology information. Please contact your team for tech stack details.")>>,
                         <<"contact", Tok("Team Lead or Technical Manager")>> >>)

\* get_techstack_information: the text it returns
get_techstack_information(files) ==
    LET r == techstack_information_try(files)
    IN Handled(r, techstack_information_except(r.exc)).value

\* mutant: the first word alone is not among the variations
search_variations_TwoWords(user_name) ==
    LET low == lower(user_name)
    IN << low, low,
          IF Len(split(user_name)) > 1
              THEN join(SubSeq(split(low), 1, 2)) ELSE low >>

\* search_variations of get_user_project_assignment, for the stripped name
search_variations(user_name) ==
    LET low == lower(user_name)
    IN << low,
          IF \E i \in DOMAIN user_name : user_name[i] = " "
              THEN split(low)[1] ELSE low,
          IF Len(split(user_name)) > 1
              THEN join(SubSeq(split(low), 1, 2)) ELSE low >>

\* mutant: only the member whose name is the name looked up matches
name_match_Exact(user_name, stored_name) == lower(stored_name) = lower(user_name)

\* mutant: a word of the stored name found in the name looked up matches too
name_match_EitherWay(user_name, stored_name) ==
    LET member_name == lower(stored_name)
        vars == search_variations(user_name)
    IN \E k \in DOMAIN vars :
          \/ Contains(member_name, vars[k])
          \/ startswith(member_name, vars[k])
          \/ \E p \in DOMAIN split(member_name) :
                \/ Contains(split(member_name)[p], vars[k])
                \/ Contains(vars[k], split(member_name)[p])

\* mutant: the name is matched as it was typed, without its variations
name_match_FullOnly(user_name, stored_name) ==
    LET member_name == lower(stored_name)
        low == lower(user_name)
    IN \/ Contains(member_name, low)
       \/ startswith(member_name, low)
       \/ \E p \in DOMAIN split(member_name) : Contains(split(member_name)[p], low)

\* name_match of get_user_project_assignment
name_match(user_name, stored_name) ==
    LET member_name == lower(stored_name)
        vars == search_variations(user_name)
    IN \E k \in DOMAIN vars :
          \/ Contains(member_name, vars[k])
          \/ startswith(member_name, vars[k])
          \/ \E p \in DOMAIN split(member_name) :
                Contains(split(member_name)[p], vars[k])

\* mutant: the department is compared as it was typed
RECURSIVE user_projects_CaseSensitive(_, _, _)
user_projects_CaseSensitive(projects, user_name, user_department) ==
    IF projects = <<>> THEN <<>>
    ELSE LET p == Head(projects)
             hit(m) == /\ name_match(user_name, m.name)
                       /\ \/ user_department = <<>>
                          \/ Contains(m.department, user_department)
         IN SelectSeq([i \in DOMAIN p.members |->
                          [project_code |-> p.project_code, member |-> p.members[i]]],
                      LAMBDA e : hit(e.member))
            \o user_projects_CaseSensitive(Tail(projects), user_name, user_department)

\* the (project, member) pairs get_user_project_assignment collects, in order
RECURSIVE user_projects(_, _, _)
user_projects(projects, user_name, user_department) ==
    IF projects = <<>> THEN <<>>
    ELSE LET p == Head(projects)
             hit(m) == /\ name_match(user_name, m.name)
                       /\ \/ user_department = <<>>
                          \/ Contains(lower(m.department), lower(user_department))
         IN SelectSeq([i \in DOMAIN p.members |->
                          [project_code |-> p.project_code, member |-> p.members[i]]],
                      LAMBDA e : hit(e.member))
            \o user_projects(Tail(projects), user_name, user_department)

RECURSIVE ProjectEntries(_)
ProjectEntries(found) ==
    IF found = <<>> THEN <<>>
    ELSE << <<"project_code", Tok(Head(found).project_code)>> >>
         \o ProjectEntries(Tail(found))

\* the try block of get_user_project_assignment after the test of the name;
\* the loop skips the items of a container that are not project records
user_project_assignment_lookup(user_name, user_department, files) ==
    CASE files.member = "missing" ->
            Done(JsonDumps(<< <<"user_found", Tok("false")>>,
                              <<"error", Tok("Member information is temporarily unavailable.")>>,
                              <<"suggestion", Tok("Please contact HR at hr@company.com for your project assignment.")>> >>),
                 TRUE, <<>>)
      [] files.member = "unreadable" -> Threw("PermissionError")
      [] files.member = "malformed" -> Threw("JSONDecodeError")
      [] files.member = "scalar" -> Threw("TypeError")
      [] OTHER ->
            LET name == Expand(strip(Str(user_name)))
                found == user_projects(MemberRecords(files.member), name,
                                       user_department)
            IN IF found # <<>>
               THEN Done(JsonDumps(<< <<"user_found", Tok("true")>>,
                                      <<"total_projects", Rep("1", Len(found))>>,
                                      <<"search_name", Str(name)>> >>
                                   \o ProjectEntries(found)),
                         TRUE, found)
               ELSE Done(JsonDumps(<< <<"user_found", Tok("false")>>,
                                      <<"search_name", Str(name)>>,
                                      <<"message", Tok("No project assignment found")>>,
                                      <<"suggestions", Tok("Check if your name is spelled exactly as in company records")>> >>),
                         TRUE, <<>>)

\* mutant: only a name that is None or empty is turned away
user_project_assignment_try_NoStrip(user_name, user_department, files) ==
    IF user_name = <<>>
    THEN Done(JsonDumps(<< <<"user_found", Tok("false")>>,
                        <<"error", Tok("Please provide a valid name to search for project assignments.")>>,
                        <<"suggestion", Tok("Enter your full name as it appears in company records.")>> >>),
              FALSE, <<>>)
    ELSE user_project_assignment_lookup(user_name, user_department, files)

\* the try block of get_user_project_assignment
user_project_assignment_try(user_name, user_department, files) ==
    IF user_name = <<>> \/ strip(Str(user_name)) = <<>>
    THEN Done(JsonDumps(<< <<"user_found", Tok("false")>>,
                        <<"error", Tok("Please provide a valid name to search for project assignments.")>>,
                        <<"suggestion", Tok("Enter your full name as it appears in company records.")>> >>),
              FALSE, <<>>)
    ELSE user_project_assignment_lookup(user_name, user_department, files)

\* the except clauses of get_user_project_assignment
user_project_assignment_except(exc) ==
    CASE exc = "JSONDecodeError" ->
            JsonDumps(<< <<"user_found", Tok("false")>>,
                         <<"error", Tok("Member information file has formatting issues.")>>,
                         <<"suggestion", Tok("Please contact HR at hr@company.com for your project assignment.")>> >>)
      [] OTHER ->
            JsonDumps(<< <<"user_found", Tok("false")>>,
                         <<"error", Tok("System error occurred during lookup.")>>,
                         <<"suggestion", Tok("Please try again or contact support@company.com")>> >>)

\* get_user_project_assignment(user_name, user_department); the arguments are
\* character sequences, user_department = <<>> when it is None
get_user_project_assignment(user_name, user_department, files) ==
    LET r == user_project_assignment_try(user_name, user_department, files)
    IN Handled(r, user_project_assignment_except(r.exc)).value

(***************************************************************************)
(* Tool calls.  The arguments of a call are a raw string; json_loads is    *)
(* json.loads on the argument strings the model draws from.                *)
(***************************************************************************)
ArgsAbsent == ""
ArgsEmptyObject == "{}"
ArgsName == "{\"user_name\": \"Nam Vu Son\"}"
ArgsNameDept == "{\"user_name\": \"Lan\", \"user_department\": \"eng\"}"
ArgsBlankName == "{\"user_name\": \"  \"}"
ArgsWrongKey == "{\"name\": \"Nam\"}"
ArgsArray == "[1]"
ArgsMalformed == "{\"user_name\": "

\* json.loads: ok = FALSE is JSONDecodeError; a decoded object is its keys and
\* the values of the two keys the lookup takes
json_loads(s) ==
    CASE s = ArgsEmptyObject ->
            [ok |-> TRUE, object |-> TRUE, keys |-> {},
             user_name |-> <<>>, user_department |-> <<>>]
      [] s = ArgsName ->
            [ok |-> TRUE, object |-> TRUE, keys |-> {"user_name"},
             user_name |-> NamVuSon, user_department |-> <<>>]
      [] s = ArgsNameDept ->
            [ok |-> TRUE, object |-> TRUE, keys |-> {"user_name", "user_department"},
             user_name |-> <<"L", "a", "n">>, user_department |-> <<"e", "n", "g">>]
      [] s = ArgsBlankName ->
            [ok |-> TRUE, object |-> TRUE, keys |-> {"user_name"},
             user_name |-> <<" ", " ">>, user_department |-> <<>>]
      [] s = ArgsWrongKey ->
            [ok |-> TRUE, object |-> TRUE, keys |-> {"name"},
             user_name |-> <<>>, user_department |-> <<>>]
      [] s = ArgsArray ->
            [ok |-> TRUE, object |-> FALSE, keys |-> {},
             user_name |-> <<>>, user_department |-> <<>>]
      [] OTHER ->
            [ok |-> FALSE, object |-> FALSE, keys |-> {},
             user_name |-> <<>>, user_department |-> <<>>]

\* self.function_map
function_map ==
    {"get_member_information", "get_process_information",
     "get_techstack_information", "get_user_project_assignment"}

Returned(value) == [raised |-> FALSE, value |-> value]
Raised == [raised |-> TRUE, value |-> None]

\* self.function_map[function_name](): the call without arguments.  The lookup
\* has a required parameter user_name, so calling it bare is a TypeError.
CallNoArgs(function_name, files) ==
    CASE function_name = "get_member_information" ->
            Returned(get_member_information(files))
      [] function_name = "get_process_information" ->
            Returned(get_process_information(files))
      [] function_name = "get_techstack_information" ->
            Returned(get_techstack_information(files))
      [] OTHER -> Raised

\* get_user_project_assignment(**args): TypeError when args is no mapping, has
\* a key that is no parameter, or lacks user_name
CallWithKwargs(args, files) ==
    IF /\ args.object
       /\ args.keys \subseteq {"user_name", "user_department"}
       /\ "user_name" \in args.keys
    THEN Returned(get_user_project_assignment(args.user_name, args.user_department,
                                             files))
    ELSE Raised

FunctionFailed(function_name) ==
    JsonDumps(<< <<"error", Tok("Function execution failed")>>,
                 <<"message", Tok("Unable to retrieve information at this time. Please try again later.")>>,
                 <<"function", Tok(function_name)>> >>)

UnknownFunction(function_name) ==
    JsonDumps(<< <<"error", Tok("Unknown function")>>,
                 <<"message", Tok("The requested operation is not available.")>>,
                 <<"function", Tok(function_name)>> >>)

\* the call _handle_tool_calls makes for a registered function
InvokeTool(tool_call, files) ==
    IF tool_call.arguments # ""
    THEN LET args == json_loads(tool_call.arguments)
         IN IF args.ok
            THEN IF tool_call.name = "get_user_project_assignment"
                 THEN CallWithKwargs(args, files)
                 ELSE CallNoArgs(tool_call.name, files)
            ELSE CallNoArgs(tool_call.name, files)
    ELSE CallNoArgs(tool_call.name, files)

\* mutant: an exception of the call is not turned into a payload
ExecuteToolCall_NoCatch(tool_call, files) ==
    IF tool_call.name \in function_map
    THEN InvokeTool(tool_call, files).value
    ELSE UnknownFunction(tool_call.name)

\* one iteration of the loop of _handle_tool_calls: the result appended to
\* results for this call
ExecuteToolCall(tool_call, files) ==
    IF tool_call.name \in function_map
    THEN LET r == InvokeTool(tool_call, files)
         IN IF r.raised THEN FunctionFailed(tool_call.name) ELSE r.value
    ELSE UnknownFunction(tool_call.name)

\* "\n".join(results) if len(results) > 1 else results[0]
RECURSIVE JoinResults(_)
JoinResults(results) ==
    IF Len(results) = 1 THEN results[1]
    ELSE results[1] \o Rep("\n", 1) \o JoinResults(Tail(results))

(***************************************************************************)
(* The completion client (AzureOpenAIClient).                              *)
(***************************************************************************)
required_configs ==
    {"OPENAI_ENDPOINT", "OPENAI_API_KEY", "OPENAI_API_VERSION",
     "OPENAI_DEPLOYMENT_NAME"}

\* mutant: the required values are not checked
get_instance_NoCheck(inst, e) ==
    IF inst \/ e.constructible THEN [raised |-> FALSE, instance |-> TRUE]
    ELSE [raised |-> TRUE, instance |-> FALSE]

\* get_instance: creates the shared client on first use; raises
\* APIConnectionError when a required value is missing or construction fails
get_instance(inst, e) ==
    IF inst THEN [raised |-> FALSE, instance |-> TRUE]
    ELSE IF (required_configs \cap e.missing) # {}
         THEN [raised |-> TRUE, instance |-> FALSE]
         ELSE IF ~e.constructible
              THEN [raised |-> TRUE, instance |-> FALSE]
              ELSE [raised |-> FALSE, instance |-> TRUE]

\* get_chat_completion up to its retry loop: "null" for an empty message
\* list, "raised" when get_instance raises, else "loop"
EnterCompletion(messages, inst, e) ==
    IF messages = <<>> THEN [kind |-> "null", instance |-> inst]
    ELSE LET g == get_instance(inst, e)
         IN IF g.raised THEN [kind |-> "raised", instance |-> g.instance]
            ELSE [kind |-> "loop", instance |-> g.instance]

\* mutant: the last failure is raised again instead of returning None
AttemptFailed_Reraise(i) ==
    IF i < max_retries - 1
    THEN [kind |-> "retry", wait |-> Pow2(i)]
    ELSE [kind |-> "raised", wait |-> 0]

\* mutant: one attempt too many
AttemptFailed_OffByOne(i) ==
    IF i < max_retries
    THEN [kind |-> "retry", wait |-> Pow2(i)]
    ELSE [kind |-> "null", wait |-> 0]

\* mutant: the loop runs twice as long
AttemptFailed_Twice(i) ==
    IF i < 2 * max_retries - 1
    THEN [kind |-> "retry", wait |-> Pow2(i)]
    ELSE [kind |-> "null", wait |-> 0]

\* the except branch of the retry loop, for the failed attempt number i
\* (0-based): sleep 2 ** i and go on, or give up with None
AttemptFailed(i) ==
    IF i < max_retries - 1
    THEN [kind |-> "retry", wait |-> Pow2(i)]
    ELSE [kind |-> "null", wait |-> 0]

(***************************************************************************)
(* Completion results.  NoResponse is None; a response has a list of       *)
(* choices, each a message with content and tool_calls.                    *)
(***************************************************************************)
NoResponse == [isNone |-> TRUE, choices |-> <<>>]

Response(content, calls) ==
    [isNone |-> FALSE, choices |-> <<[content |-> content, tool_calls |-> calls]>>]

NoChoices == [isNone |-> FALSE, choices |-> <<>>]

HasToolCalls(response) ==
    response.choices # <<>> /\ response.choices[1].tool_calls # <<>>

\* mutant: no content is ever seen
HasContent_Never(response) == FALSE

HasContent(response) ==
    response.choices # <<>> /\ Truthy(response.choices[1].content)

(***************************************************************************)
(* The orchestrator (OnboardingAssistant).                                 *)
(***************************************************************************)
\* mutant: the rollback takes the message before the user message too
Pop_Two(h) == SubSeq(h, 1, Len(h) - 2)

\* mutant: nothing is removed
Pop_Nothing(h) == h

\* self.conversation_history.pop()
Pop(h) == SubSeq(h, 1, Len(h) - 1)

\* mutant: the except branch leaves the history as it finds it
PopIfUser_Keep(h) == h

\* the clean-up of the except branches of __send_message
PopIfUser(h) == IF h # <<>> /\ Last(h).role = "user" THEN Pop(h) ELSE h

\* mutant: the ceiling itself is rejected too
_validate_input_OffByOne(user_message) ==
    IF ~Truthy(user_message) THEN [ok |-> FALSE, msg |-> PleaseEnterMessage]
    ELSE LET message == strip(user_message)
         IN IF message = <<>> THEN [ok |-> FALSE, msg |-> PleaseEnterNonEmpty]
            ELSE IF len(message) >= MaxMessageLength
                 THEN [ok |-> FALSE, msg |-> MessageTooLong]
                 ELSE IF count(message, "\n") > MaxLineBreaks
                      THEN [ok |-> FALSE, msg |-> TooManyLineBreaks]
                      ELSE [ok |-> TRUE, msg |-> <<>>]

\* mutant: MaxLineBreaks line breaks are already too many
_validate_input_AtLeast(user_message) ==
    IF ~Truthy(user_message) THEN [ok |-> FALSE, msg |-> PleaseEnterMessage]
    ELSE LET message == strip(user_message)
         IN IF message = <<>> THEN [ok |-> FALSE, msg |-> PleaseEnterNonEmpty]
            ELSE IF len(message) > MaxMessageLength
                 THEN [ok |-> FALSE, msg |-> MessageTooLong]
                 ELSE IF count(message, "\n") >= MaxLineBreaks
                      THEN [ok |-> FALSE, msg |-> TooManyLineBreaks]
                      ELSE [ok |-> TRUE, msg |-> <<>>]

\* mutant: the message is not stripped before the emptiness test
_validate_input_NoStrip(user_message) ==
    IF ~Truthy(user_message) THEN [ok |-> FALSE, msg |-> PleaseEnterMessage]
    ELSE IF len(user_message) > MaxMessageLength
         THEN [ok |-> FALSE, msg |-> MessageTooLong]
         ELSE IF count(user_message, "\n") > MaxLineBreaks
              THEN [ok |-> FALSE, msg |-> TooManyLineBreaks]
              ELSE [ok |-> TRUE, msg |-> <<>>]

\* mutant: the context is appended as given, blanks and all
set_additional_context_NoStrip(h, context) ==
    IF ~Truthy(context) \/ strip(context) = <<>> THEN h
    ELSE Append(h, Msg("user", Concat(Tok("[CONTEXT] "), context)))

\* set_additional_context: the history it leaves
set_additional_context(h, context) ==
    IF ~Truthy(context) \/ strip(context) = <<>> THEN h
    ELSE Append(h, Msg("user", Concat(Tok("[CONTEXT] "), strip(context))))

\* [msg for msg in self.conversation_history if msg["role"] == role]
WithRole(h, role) == SelectSeq(h, LAMBDA msg : msg.role = role)

\* mutant: tool_calls counts the assistant messages that ask for tools
get_conversation_summary_Requests(h) ==
    [total_messages |-> Len(h),
     user_messages |-> Len(WithRole(h, "user")),
     assistant_messages |-> Len(WithRole(h, "assistant")),
     tool_calls |-> Len(SelectSeq(h, LAMBDA msg : msg.tool_calls # <<>>)),
     conversation_started |-> Len(h) > 1]

\* get_conversation_summary, without session_id and last_activity
get_conversation_summary(h) ==
    [total_messages |-> Len(h),
     user_messages |-> Len(WithRole(h, "user")),
     assistant_messages |-> Len(WithRole(h, "assistant")),
     tool_calls |-> Len(WithRole(h, "tool")),
     conversation_started |-> Len(h) > 1]

\* _validate_input
_validate_input(user_message) ==
    IF ~Truthy(user_message) THEN [ok |-> FALSE, msg |-> PleaseEnterMessage]
    ELSE LET message == strip(user_message)
         IN IF message = <<>> THEN [ok |-> FALSE, msg |-> PleaseEnterNonEmpty]
            ELSE IF len(message) > MaxMessageLength
                 THEN [ok |-> FALSE, msg |-> MessageTooLong]
                 ELSE IF count(message, "\n") > MaxLineBreaks
                      THEN [ok |-> FALSE, msg |-> TooManyLineBreaks]
                      ELSE [ok |-> TRUE, msg |-> <<>>]

\* mutant: the branch falls through without a return value
NullResponseReply_NoReturn == None

\* the reply of __send_message when the first completion is None
NullResponseReply == TroubleConnecting

\* mutant: the user message is left in place
NullResponseHistory_NoPop(h) == h

\* the history __send_message leaves when the first completion is None
NullResponseHistory(h) == Pop(h)

\* the except APIConnectionError branch of __send_message
ExceptAPIConnectionError(h) == [history |-> PopIfUser(h), text |-> TroubleAIService]

\* the assistant message _handle_tool_calls appends before it runs the calls
AssistantToolCallsMessage(response) ==
    ToolCallsMsg(response.choices[1].content, response.choices[1].tool_calls)

\* __send_message after its get_chat_completion returned: "tools" when the
\* dispatch starts (history then holds the assistant tool_calls message),
\* "return" with the reply otherwise
AfterFirstCompletion(h, response) ==
    IF response.isNone
    THEN [kind |-> "return", history |-> NullResponseHistory(h),
          text |-> NullResponseReply]
    ELSE IF HasToolCalls(response)
         THEN [kind |-> "tools",
               history |-> Append(h, AssistantToolCallsMessage(response)),
               text |-> None]
         ELSE IF HasContent(response)
              THEN [kind |-> "return",
                    history |-> Append(h, Msg("assistant", response.choices[1].content)),
                    text |-> response.choices[1].content]
              ELSE [kind |-> "return", history |-> Pop(h), text |-> NoProperResponse]

\* mutant: the content of the first tool message
RECURSIVE last_tool_result_First(_)
last_tool_result_First(h) ==
    IF h = <<>> THEN None
    ELSE IF Head(h).role = "tool" THEN Head(h).content
         ELSE last_tool_result_First(Tail(h))

\* the content of the last tool message, None when there is none
RECURSIVE last_tool_result(_)
last_tool_result(h) ==
    IF h = <<>> THEN None
    ELSE IF Last(h).role = "tool" THEN Last(h).content
         ELSE last_tool_result(Pop(h))

\* mutant: every tool message tagged with the id of the first call
ToolMessage_FirstId(tool_call, result) == ToolMsg(result, "call_a")

\* the tool message appended for a call
ToolMessage(tool_call, result) == ToolMsg(result, tool_call.id)

\* _get_final_response after its get_chat_completion returned
AfterFollowUp(h, response) ==
    IF ~response.isNone /\ HasContent(response)
    THEN [history |-> Append(h, Msg("assistant", response.choices[1].content)),
          text |-> response.choices[1].content]
    ELSE LET last == last_tool_result(h)
         IN IF Truthy(last)
            THEN [history |-> h, text |-> Concat(RetrievedPrefix, last)]
            ELSE [history |-> h, text |-> CouldNotFormat]

\* stop_after_attempt(5) of the @retry of __send_message
stop_after_attempt == 5

\* mutant: the except branches raise the exception again
TurnBodyEscapes_Reraised == TRUE

\* whether an exception leaves the body of __send_message: both except
\* branches end with a return
TurnBodyEscapes == FALSE

\* the @retry of __send_message around a body whose get_chat_completion
\* raises: the body is run again while an exception leaves it, and after
\* stop_after_attempt runs the decorator raises; runs counts the runs
RECURSIVE retry(_, _, _)
retry(h, user, attempt_number) ==
    LET x == ExceptAPIConnectionError(Append(h, user))
    IN IF ~TurnBodyEscapes
       THEN [history |-> x.history, runs |-> attempt_number,
             inner |-> [raised |-> FALSE, text |-> x.text]]
       ELSE IF attempt_number >= stop_after_attempt
            THEN [history |-> x.history, runs |-> attempt_number,
                  inner |-> [raised |-> TRUE, text |-> None]]
            ELSE retry(x.history, user, attempt_number + 1)

\* send_message around __send_message: what reaches the caller
send_message_outcome(inner) ==
    IF inner.raised THEN [raised |-> FALSE, text |-> TechnicalDifficulties]
    ELSE [raised |-> FALSE, text |-> inner.text]

(***************************************************************************)
(* The transcript file.                                                    *)
(***************************************************************************)
ClearedMarker == [role |-> "# Conversation history cleared", content |-> <<>>]

\* mutant: only the user entries are written
save_conversation_history_UserOnly(tr, role, content, e) ==
    IF e.fsOK /\ role = "user"
    THEN [exists |-> TRUE, lines |-> Append(tr.lines, [role |-> role, content |-> content])]
    ELSE tr

\* mutant: the entry holds the stripped text
save_conversation_history_Stripped(tr, role, content, e) ==
    IF e.fsOK
    THEN [exists |-> TRUE,
          lines |-> Append(tr.lines, [role |-> role, content |-> strip(content)])]
    ELSE tr

\* save_conversation_history: a failed write is swallowed
save_conversation_history(tr, role, content, e) ==
    IF e.fsOK
    THEN [exists |-> TRUE, lines |-> Append(tr.lines, [role |-> role, content |-> content])]
    ELSE tr

\* mutant: a failed write is raised to the caller
SaveEscapes_Unguarded(e) == ~e.fsOK

\* whether an exception leaves save_conversation_history: its whole body is
\* inside try / except Exception
SaveEscapes(e) == FALSE

\* mutant: the marker is added to the lines already there
clear_conversation_history_Append(tr, e) ==
    IF tr.exists /\ e.fsOK
    THEN [exists |-> TRUE, lines |-> Append(tr.lines, ClearedMarker)]
    ELSE tr

\* mutant: the file is left as it is
clear_conversation_history_Skip(tr, e) == tr

\* clear_conversation_history
clear_conversation_history(tr, e) ==
    IF tr.exists /\ e.fsOK THEN [exists |-> TRUE, lines |-> <<ClearedMarker>>] ELSE tr

(***************************************************************************)
(* Inputs and environments of the model.                                   *)
(***************************************************************************)
\* user messages: empty, blank, valid with surrounding blanks, one character
\* over the length ceiling, one line break over the line-break ceiling
EmptyInput == <<>>
BlankInput == Rep(" ", 3)
PaddedInput == Rep(" ", 1) \o Rep("q", 2) \o Rep("\n", 1)
OversizedInput == Rep("q", MaxMessageLength + 1)
BrokenLinesInput == Rep("q", 1) \o Rep("\n", MaxLineBreaks + 1) \o Rep("q", 1)

UserInputs == {EmptyInput, PaddedInput, OversizedInput}

ContextInputs == {EmptyInput, BlankInput, Rep(" ", 1) \o Rep("k", 4) \o Rep(" ", 2)}

\* the tool calls the endpoint asks for, as (name, arguments)
CallPool ==
    << <<"get_member_information", ArgsMalformed>>,
       <<"get_user_project_assignment", ArgsMalformed>>,
       <<"get_salary_information", ArgsEmptyObject>>,
       <<"get_user_project_assignment", ArgsName>>,
       <<"get_process_information", ArgsMalformed>>,
       <<"get_user_project_assignment", ArgsWrongKey>>,
       <<"get_techstack_information", ArgsMalformed>>,
       <<"get_member_information", ArgsAbsent>> >>

\* the batch of n calls starting at position start of the pool; the
\* endpoint gives the calls of one response their ids by position
Batch(start, n) ==
    [j \in 1..n |->
        [id |-> <<"call_a", "call_b", "call_c", "call_d">>[j],
         name |-> CallPool[((start + j - 2) % Len(CallPool)) + 1][1],
         arguments |-> CallPool[((start + j - 2) % Len(CallPool)) + 1][2]]]

\* the batches the endpoint asks for, as (start, number of calls)

Batches ==
    {Batch(shape[1], shape[2]) :
        shape \in {<<2, 1>>, <<1, 3>>, <<5, 3>>, <<3, 2>>, <<8, 1>>}}

\* what the endpoint may answer to the first request of a turn
FirstResponses ==
    {NoChoices, Response(None, <<>>), Response(Tok("ANSWER"), <<>>),
     Response(Tok("LOOKING UP"), Batch(2, 1))}
    \cup {Response(None, b) : b \in Batches}

\* what the endpoint may answer to the follow-up request
FollowUpResponses == {NoChoices, Response(<<>>, <<>>), Response(Tok("SYNTHESIS"), <<>>)}

AllValid == [member |-> "valid", process |-> "valid", techstack |-> "valid"]
Absent == [exists |-> FALSE, lines |-> <<>>]
OldTranscript ==
    [exists |-> TRUE, lines |-> <<[role |-> "user", content |-> Tok("OLD SESSION")]>>]

\* configuration, file system and knowledge files, fixed over a behaviour
Envs ==
    { [missing |-> {}, constructible |-> TRUE, fsOK |-> TRUE, files |-> AllValid,
       prior |-> OldTranscript],
      [missing |-> {}, constructible |-> TRUE, fsOK |-> FALSE,
       files |-> [member |-> "missing", process |-> "unreadable",
                  techstack |-> "malformed"],
       prior |-> OldTranscript],
      [missing |-> {"OPENAI_ENDPOINT", "OPENAI_DEPLOYMENT_NAME"},
       constructible |-> TRUE, fsOK |-> TRUE, files |-> AllValid, prior |-> Absent],
      [missing |-> {}, constructible |-> FALSE, fsOK |-> TRUE,
       files |-> [member |-> "malformed", process |-> "missing",
                  techstack |-> "missing"],
       prior |-> OldTranscript] }

(***************************************************************************)
(* The get_chat_completion calls of a turn, as the orchestrator makes them. *)
(***************************************************************************)
\* self.function_definitions: the schema of the four tools, by name
function_definitions ==
    <<"get_member_information", "get_process_information",
      "get_techstack_information", "get_user_project_assignment">>

\* the tools argument of the call in __send_message
FirstCallTools == function_definitions

\* mutant: the follow-up call carries the schema too
FollowUpCallTools_Schema == function_definitions

\* the tools argument of the call in _get_final_response: none
FollowUpCallTools == <<>>

\* request_params of a get_chat_completion call: tools only if provided
CompletionCall(messages, tools) == [messages |-> messages, tools |-> tools]

(***************************************************************************)
(* The rate limiter (AzureOpenAIClient._apply_rate_limiting).               *)
(***************************************************************************)
\* mutant: the limiter never sleeps
sleep_time_None(current_time, last) == 0

\* mutant: the limiter sleeps one tick less than it should
sleep_time_Short(current_time, last) ==
    IF current_time - last < min_request_interval
    THEN min_request_interval - (current_time - last) - 1
    ELSE 0

\* how long _apply_rate_limiting sleeps, 0 when it does not
sleep_time(current_time, last) ==
    IF current_time - last < min_request_interval
    THEN min_request_interval - (current_time - last)
    ELSE 0

\* a thread that is not inside get_chat_completion
IdleCaller ==
    [pc |-> "idle", wake |-> 0, attempt |-> 0, calls |-> 0, seen |-> 0]

Threads(n) == [c \in 1..n |-> IdleCaller]

\* no request attempt yet
NoSpacing ==
    [count |-> 0, at |-> 0, prev |-> 0, by |-> 0, prevBy |-> 0, stale |-> FALSE]

(***************************************************************************)
(* State.                                                                  *)
(***************************************************************************)
VARIABLES
    history,      \* self.conversation_history
    transcript,   \* the file Config.CHAT_HISTORY_PATH
    instance,     \* AzureOpenAIClient._instance is not None
    env,          \* configuration, file system, knowledge files
    pc,           \* "unbuilt" before OnboardingAssistant(), then "idle", or
                  \* where the running send_message is: "first", "dispatch",
                  \* "followup"; "complete" and "returned" in SpecClient
    attempt,      \* the loop variable of get_chat_completion
    waits,        \* the back-off sleeps of the running get_chat_completion
    requests,     \* the request attempts of the running get_chat_completion
    pending,      \* the tool calls _handle_tool_calls has yet to run
    results,      \* results of _handle_tool_calls
    ret,          \* what the last operation, a send_message, gave its caller
    pre,          \* the history when the last operation was called
    obs,          \* the last operation: its input and what the endpoint did
    turns,        \* send_message calls so far
    admins,       \* set_additional_context / reset_conversation calls so far
    now,          \* time.time(), in ticks
    last_request_time,  \* AzureOpenAIClient._last_request_time
    callers,      \* the threads inside get_chat_completion, in SpecLimiter
                  \* and SpecRace: where each is and its local variables
    spacing       \* the last request attempt: when it and the one before it
                  \* were issued, and what its caller had seen

\* the variables of the orchestrator and of one get_chat_completion call
turnVars == <<history, transcript, instance, env, pc, attempt, waits, requests,
              pending, results, ret, pre, obs, turns, admins>>

\* the variables of the rate limiter
limiterVars == <<now, last_request_time, callers, spacing>>

vars == <<history, transcript, instance, env, pc, attempt, waits, requests,
          pending, results, ret, pre, obs, turns, admins, now, last_request_time,
          callers, spacing>>

NoObs ==
    [op |-> "none", input |-> <<>>, valid |-> FALSE, first |-> "none",
     follow |-> "none", calls |-> <<>>, completions |-> <<>>,
     response |-> NoResponse, transcript |-> [exists |-> FALSE, lines |-> <<>>],
     department |-> <<>>, runs |-> 0]

\* no send_message has returned in the last operation
NoReturn == [raised |-> FALSE, text |-> None]

\* the class attributes of AzureOpenAIClient when the process starts, at
\* time t after the epoch, with n threads
LimiterStart(n, t) ==
    /\ now = t
    /\ last_request_time = 0
    /\ callers = Threads(n)
    /\ spacing = NoSpacing

\* the process has started: no assistant object yet, no shared client
Init ==
    /\ LimiterStart(0, min_request_interval)
    /\ env \in Envs
    /\ history = <<>>
    /\ transcript = env.prior
    /\ instance = FALSE
    /\ pc = "unbuilt"
    /\ attempt = 0
    /\ waits = <<>>
    /\ requests = 0
    /\ pending = <<>>
    /\ results = <<>>
    /\ ret = NoReturn
    /\ pre = <<>>
    /\ obs = NoObs
    /\ turns = 0
    /\ admins = 0

(***************************************************************************)
(* Actions.  A send_message call runs from SendMessage to the step that    *)
(* sets pc back to "idle"; the steps between are the request attempts of   *)
(* get_chat_completion and the iterations of the dispatch loop.            *)
(***************************************************************************)
\* how the first completion of the turn ended, for obs
FirstKind(response) ==
    IF response.isNone THEN "null"
    ELSE IF HasToolCalls(response) THEN "tools"
         ELSE IF HasContent(response) THEN "direct" ELSE "empty"

FollowKind(response) ==
    IF response.isNone THEN "null"
    ELSE IF HasContent(response) THEN "text" ELSE "empty"

\* send_message returns: __send_message gave inner, with history h and the
\* transcript tr written so far
Finish(h, tr, inner) ==
    /\ history' = h
    /\ ret' = send_message_outcome(IF ~inner.raised /\ SaveEscapes(env)
                                    THEN [raised |-> TRUE, text |-> None]
                                    ELSE inner)
    /\ transcript' = IF inner.raised THEN tr
                     ELSE save_conversation_history(tr, "assistant", inner.text, env)
    /\ pc' = "idle"
    /\ attempt' = 0
    /\ waits' = <<>>
    /\ requests' = 0

\* get_chat_completion enters its retry loop
EnterLoop(stage) ==
    /\ pc' = stage
    /\ attempt' = 0
    /\ waits' = <<>>
    /\ requests' = 0

\* OnboardingAssistant(): __init__ ends with reset_conversation() and does
\* not touch the client
Construct ==
    /\ UNCHANGED limiterVars
    /\ pc = "unbuilt"
    /\ pc' = "idle"
    /\ history' = reset_conversation(history)
    /\ transcript' = clear_conversation_history(transcript, env)
    /\ pre' = <<>>
    /\ obs' = [NoObs EXCEPT !.op = "construct", !.transcript = transcript]
    /\ UNCHANGED <<instance, env, attempt, waits, requests, pending, results, ret,
                   turns, admins>>

\* send_message(user_message), up to the first request attempt
SendMessage(m) ==
    /\ UNCHANGED limiterVars
    /\ pc = "idle"
    /\ turns < MaxTurns
    /\ turns' = turns + 1
    /\ pre' = history
    /\ UNCHANGED <<env, admins, pending, results>>
    /\ LET tr == save_conversation_history(transcript, "user", m, env)
           v == _validate_input(m)
           h == Append(history, Msg("user", strip(m)))
           enter == EnterCompletion(h, instance, env)
           sent == [NoObs EXCEPT !.op = "send", !.input = m, !.runs = 1,
                                 !.transcript = transcript]
           called == [sent EXCEPT !.valid = TRUE,
                                  !.completions =
                                      <<CompletionCall(h, FirstCallTools)>>]
       IN IF SaveEscapes(env)
          THEN /\ Finish(history, tr, [raised |-> TRUE, text |-> None])
               /\ obs' = sent
               /\ UNCHANGED instance
          ELSE IF ~v.ok
          THEN /\ Finish(history, tr, [raised |-> FALSE, text |-> v.msg])
               /\ obs' = sent
               /\ UNCHANGED instance
          ELSE /\ instance' = enter.instance
               /\ IF enter.kind = "loop"
                  THEN /\ EnterLoop("first")
                       /\ history' = h
                       /\ transcript' = tr
                       /\ obs' = called
                       /\ UNCHANGED ret
                  ELSE IF enter.kind = "raised"
                       THEN LET x == retry(history, Msg("user", strip(m)), 1)
                            IN /\ obs' = [called EXCEPT !.first = enter.kind,
                                                        !.runs = x.runs]
                               /\ Finish(x.history, tr, x.inner)
                       ELSE LET a == AfterFirstCompletion(h, NoResponse)
                            IN /\ obs' = [called EXCEPT !.first = enter.kind]
                               /\ Finish(a.history, tr,
                                         [raised |-> FALSE, text |-> a.text])

\* __send_message goes on with the result of its get_chat_completion
ContinueFirst(response) ==
    LET a == AfterFirstCompletion(history, response)
    IN /\ obs' = [obs EXCEPT !.first = FirstKind(response),
                             !.response = response,
                             !.calls = IF HasToolCalls(response)
                                       THEN response.choices[1].tool_calls ELSE <<>>]
       /\ IF a.kind = "tools"
          THEN /\ history' = a.history
               /\ pc' = "dispatch"
               /\ pending' = response.choices[1].tool_calls
               /\ results' = <<>>
               /\ attempt' = 0
               /\ waits' = <<>>
               /\ requests' = 0
               /\ UNCHANGED <<ret, transcript>>
          ELSE /\ Finish(a.history, transcript, [raised |-> FALSE, text |-> a.text])
               /\ UNCHANGED <<pending, results>>

\* _get_final_response goes on with the result of its get_chat_completion
ContinueFollowUp(response) ==
    LET a == AfterFollowUp(history, response)
    IN /\ obs' = [obs EXCEPT !.follow = FollowKind(response)]
       /\ Finish(a.history, transcript, [raised |-> FALSE, text |-> a.text])
       /\ UNCHANGED <<pending, results>>

Continue(response) ==
    IF pc = "first" THEN ContinueFirst(response) ELSE ContinueFollowUp(response)

\* a request attempt of the turn raises (time-out, connection error, error
\* status): the client sleeps and tries again, or returns None
RequestFails ==
    /\ UNCHANGED limiterVars
    /\ pc \in {"first", "followup"}
    /\ UNCHANGED <<instance, env, pre, turns, admins>>
    /\ LET f == AttemptFailed(attempt)
       IN IF f.kind = "retry"
          THEN /\ requests' = requests + 1
               /\ waits' = Append(waits, f.wait)
               /\ attempt' = attempt + 1
               /\ UNCHANGED <<history, transcript, pc, pending, results, ret, obs>>
          ELSE Continue(NoResponse)

\* a request attempt of the turn returns the response r
RequestSucceeds(r) ==
    /\ UNCHANGED limiterVars
    /\ pc \in {"first", "followup"}
    /\ r \in (IF pc = "first" THEN FirstResponses ELSE FollowUpResponses)
    /\ UNCHANGED <<instance, env, pre, turns, admins>>
    /\ Continue(r)

\* one iteration of the loop of _handle_tool_calls; after the last one
\* _get_final_response calls get_chat_completion
DispatchCall ==
    /\ UNCHANGED limiterVars
    /\ pc = "dispatch"
    /\ pending # <<>>
    /\ UNCHANGED <<env, pre, turns, admins>>
    /\ LET tool_call == Head(pending)
           result == ExecuteToolCall(tool_call, env.files)
           h == Append(history, ToolMessage(tool_call, result))
           enter == EnterCompletion(h, instance, env)
           called == [obs EXCEPT !.completions =
                                     Append(@, CompletionCall(h, FollowUpCallTools))]
       IN /\ results' = Append(results, result)
          /\ pending' = Tail(pending)
          /\ IF Tail(pending) # <<>>
             THEN /\ history' = h
                  /\ UNCHANGED <<pc, attempt, waits, requests, instance, ret,
                                 transcript, obs>>
             ELSE /\ instance' = enter.instance
                  /\ IF enter.kind = "loop"
                     THEN /\ EnterLoop("followup")
                          /\ history' = h
                          /\ obs' = called
                          /\ UNCHANGED <<ret, transcript>>
                     ELSE /\ obs' = [called EXCEPT !.follow = enter.kind]
                          /\ IF enter.kind = "raised"
                             THEN Finish(h, transcript,
                                         [raised |-> FALSE, text |-> ErrorFormatting])
                             ELSE LET a == AfterFollowUp(h, NoResponse)
                                  IN Finish(a.history, transcript,
                                            [raised |-> FALSE, text |-> a.text])

\* set_additional_context(context)
SetAdditionalContext(context) ==
    /\ UNCHANGED limiterVars
    /\ pc = "idle"
    /\ admins < MaxAdmin
    /\ admins' = admins + 1
    /\ history' = set_additional_context(history, context)
    /\ obs' = [NoObs EXCEPT !.op = "context", !.input = context,
                            !.transcript = transcript]
    /\ pre' = history
    /\ ret' = NoReturn
    /\ UNCHANGED <<transcript, instance, env, pc, attempt, waits, requests, pending,
                   results, turns>>

\* reset_conversation()
ResetConversation ==
    /\ UNCHANGED limiterVars
    /\ pc = "idle"
    /\ admins < MaxAdmin
    /\ admins' = admins + 1
    /\ history' = reset_conversation(history)
    /\ transcript' = clear_conversation_history(transcript, env)
    /\ obs' = [NoObs EXCEPT !.op = "reset", !.transcript = transcript]
    /\ pre' = history
    /\ ret' = NoReturn
    /\ UNCHANGED <<instance, env, pc, attempt, waits, requests, pending, results,
                   turns>>

\* get_conversation_summary(): ret is the dictionary it returns
GetConversationSummary ==
    /\ UNCHANGED limiterVars
    /\ pc = "idle"
    /\ ret' = get_conversation_summary(history)
    /\ obs' = [NoObs EXCEPT !.op = "summary", !.transcript = transcript]
    /\ pre' = history
    /\ UNCHANGED <<history, transcript, instance, env, pc, attempt, waits, requests,
                   pending, results, turns, admins>>

Next ==
    \/ Construct
    \/ \E m \in UserInputs : SendMessage(m)
    \/ RequestFails
    \/ \E r \in FirstResponses \cup FollowUpResponses : RequestSucceeds(r)
    \/ DispatchCall
    \/ \E c \in ContextInputs : SetAdditionalContext(c)
    \/ ResetConversation

Spec == Init /\ [][Next]_vars

(***************************************************************************)
(* The completion client on its own: get_chat_completion called with any   *)
(* message list, in any configuration.  history is the list passed,        *)
(* obs.first how the call ended, and attempt, waits and requests are kept  *)
(* after the call returned, until the next call.                           *)
(***************************************************************************)
ClientMessages == {<<>>, InitialHistory, Append(InitialHistory, Msg("user", Rep("q", 2)))}

ClientInit ==
    /\ LimiterStart(0, min_request_interval)
    /\ env \in Envs
    /\ history = <<>>
    /\ transcript = env.prior
    /\ instance = FALSE
    /\ pc = "returned"
    /\ attempt = 0
    /\ waits = <<>>
    /\ requests = 0
    /\ pending = <<>>
    /\ results = <<>>
    /\ ret = NoReturn
    /\ pre = <<>>
    /\ obs = NoObs
    /\ turns = 0
    /\ admins = 0

\* get_chat_completion(messages), up to the first request attempt
ClientCall(messages) ==
    /\ UNCHANGED limiterVars
    /\ pc = "returned"
    /\ turns < MaxTurns
    /\ turns' = turns + 1
    /\ history' = messages
    /\ attempt' = 0
    /\ waits' = <<>>
    /\ requests' = 0
    /\ LET enter == EnterCompletion(messages, instance, env)
       IN /\ instance' = enter.instance
          /\ pc' = IF enter.kind = "loop" THEN "complete" ELSE "returned"
          /\ obs' = [NoObs EXCEPT !.op = "complete",
                                  !.first = IF enter.kind = "loop" THEN "none"
                                            ELSE enter.kind]
    /\ UNCHANGED <<transcript, env, pending, results, ret, pre, admins>>

\* a request attempt raises
ClientAttemptFails ==
    /\ UNCHANGED limiterVars
    /\ pc = "complete"
    /\ requests' = requests + 1
    /\ LET f == AttemptFailed(attempt)
       IN IF f.kind = "retry"
          THEN /\ waits' = Append(waits, f.wait)
               /\ attempt' = attempt + 1
               /\ UNCHANGED <<pc, obs>>
          ELSE /\ pc' = "returned"
               /\ obs' = [obs EXCEPT !.first = f.kind]
               /\ UNCHANGED <<waits, attempt>>
    /\ UNCHANGED <<history, transcript, instance, env, pending, results, ret, pre,
                   turns, admins>>

\* a request attempt returns the response r, and so does the call
ClientAttemptSucceeds(r) ==
    /\ UNCHANGED limiterVars
    /\ pc = "complete"
    /\ requests' = requests + 1
    /\ pc' = "returned"
    /\ obs' = [obs EXCEPT !.first = FirstKind(r),
                          !.calls = IF HasToolCalls(r) THEN r.choices[1].tool_calls
                                    ELSE <<>>]
    /\ UNCHANGED <<history, transcript, instance, env, attempt, waits, pending,
                   results, ret, pre, turns, admins>>

ClientNext ==
    \/ \E messages \in ClientMessages : ClientCall(messages)
    \/ ClientAttemptFails
    \/ \E r \in FirstResponses : ClientAttemptSucceeds(r)

SpecClient == ClientInit /\ [][ClientNext]_vars

(***************************************************************************)
(* The assistant at the boundaries of _validate_input: the same            *)
(* operations, with the user messages at and around the limits, a working  *)
(* configuration and file system, and an endpoint that answers directly,   *)
(* asks for one tool call, or fails.                                       *)
(***************************************************************************)
\* exactly MaxMessageLength characters, and the same with blanks around it
ExactCeilingInput == Rep("q", MaxMessageLength)
PaddedCeilingInput == Rep(" ", 1) \o Rep("q", MaxMessageLength) \o Rep("\n", 1)

BoundaryInputs ==
    {EmptyInput, BlankInput, ExactCeilingInput, PaddedCeilingInput, OversizedInput,
     BrokenLinesInput,
     Rep("q", 1) \o Rep("\n", MaxLineBreaks) \o Rep("q", 1),
     Rep("\n", 1) \o Rep("q", 1) \o Rep("\n", MaxLineBreaks) \o Rep("q", 1)
         \o Rep("\n", 1)}

BoundaryResponses ==
    {Response(Tok("ANSWER"), <<>>), Response(None, Batch(8, 1)),
     Response(Tok("SYNTHESIS"), <<>>)}

InputInit ==
    /\ Init
    /\ env.missing = {}
    /\ env.constructible

InputNext ==
    \/ Construct
    \/ \E m \in BoundaryInputs : SendMessage(m)
    \/ RequestFails
    \/ \E r \in BoundaryResponses : RequestSucceeds(r)
    \/ DispatchCall

SpecInput == InputInit /\ [][InputNext]_vars

(***************************************************************************)
(* The same turns with the scheduling the program relies on: a request     *)
(* that was sent returns or raises (the client has a time-out), and a tool *)
(* function that was called returns.                                       *)
(***************************************************************************)
SpecTermination ==
    /\ InputInit
    /\ [][InputNext]_vars
    /\ WF_vars(RequestFails \/ \E r \in BoundaryResponses : RequestSucceeds(r))
    /\ WF_vars(DispatchCall)

(***************************************************************************)
(* The orchestrator with get_conversation_summary called between its other *)
(* operations, in a healthy environment.                                   *)
(***************************************************************************)
SummaryNext ==
    \/ Next
    \/ GetConversationSummary

SummaryInit ==
    /\ InputInit
    /\ env.fsOK

SpecSummary == SummaryInit /\ [][SummaryNext]_vars

(***************************************************************************)
(* Several assistants in one process: OnboardingAssistant() is called      *)
(* again while no call is running.  The new object has a history of its    *)
(* own and the transcript file and the client of the class; the model      *)
(* follows the object constructed last.                                    *)
(***************************************************************************)
ConstructAnother ==
    /\ UNCHANGED limiterVars
    /\ pc = "idle"
    /\ admins < MaxAdmin
    /\ admins' = admins + 1
    /\ history' = reset_conversation(<<>>)
    /\ transcript' = clear_conversation_history(transcript, env)
    /\ pre' = <<>>
    /\ ret' = NoReturn
    /\ obs' = [NoObs EXCEPT !.op = "construct", !.transcript = transcript]
    /\ UNCHANGED <<instance, env, pc, attempt, waits, requests, pending, results,
                   turns>>

InstancesNext ==
    \/ Construct
    \/ ConstructAnother
    \/ \E m \in {EmptyInput, PaddedInput} : SendMessage(m)
    \/ RequestFails
    \/ \E r \in BoundaryResponses : RequestSucceeds(r)
    \/ DispatchCall
    \/ ResetConversation

SpecInstances == Init /\ [][InstancesNext]_vars

(***************************************************************************)
(* The knowledge store accessors on their own: the four module functions   *)
(* called in any order, with the three files in any state.  ret is the     *)
(* outcome of the last call, obs.op its name, obs.input and obs.department *)
(* the arguments of a lookup.                                              *)
(***************************************************************************)
KnowledgeInit ==
    /\ LimiterStart(0, min_request_interval)
    /\ env \in {[missing |-> {}, constructible |-> TRUE, fsOK |-> TRUE, files |-> f,
                  prior |-> Absent] :
                    f \in [member : FileStates, process : FileStates,
                           techstack : FileStates]}
    /\ history = <<>>
    /\ transcript = env.prior
    /\ instance = FALSE
    /\ pc = "unbuilt"
    /\ attempt = 0
    /\ waits = <<>>
    /\ requests = 0
    /\ pending = <<>>
    /\ results = <<>>
    /\ ret = NoReturn
    /\ pre = <<>>
    /\ obs = NoObs
    /\ turns = 0
    /\ admins = 0

\* a call of an accessor: only its outcome is kept
Accessed(op, user_name, user_department, outcome) ==
    /\ ret' = outcome
    /\ obs' = [NoObs EXCEPT !.op = op, !.input = user_name,
                            !.department = user_department]
    /\ UNCHANGED <<history, transcript, instance, env, pc, attempt, waits, requests,
                   pending, results, pre, turns, admins>>
    /\ UNCHANGED limiterVars

GetMemberInformation ==
    LET r == member_information_try(env.files)
    IN Accessed("get_member_information", <<>>, <<>>,
                Handled(r, member_information_except(r.exc)))

GetProcessInformation ==
    LET r == process_information_try(env.files)
    IN Accessed("get_process_information", <<>>, <<>>,
                Handled(r, process_information_except(r.exc)))

GetTechstackInformation ==
    LET r == techstack_information_try(env.files)
    IN Accessed("get_techstack_information", <<>>, <<>>,
                Handled(r, techstack_information_except(r.exc)))

GetUserProjectAssignment(user_name, user_department) ==
    LET r == user_project_assignment_try(user_name, user_department, env.files)
    IN Accessed("get_user_project_assignment", user_name, user_department,
                Handled(r, user_project_assignment_except(r.exc)))

\* the names looked up: none, blank, a full name, parts of names in either
\* case, padded, and names of which only the first word is in the file; the
\* departments: <<>> is None
KnowledgeNext ==
    \/ GetMemberInformation
    \/ GetProcessInformation
    \/ GetTechstackInformation
    \/ \E user_name \in {<<>>, <<" ", " ">>, NamVuSon, <<"n", "a", "m">>,
                          <<" ", "L", "a", "n", " ">>, <<"N", "a", "m", " ", "L", "e">>,
                          <<"S", "o", "n">>, <<"V", "u", " ", "X">>,
                          <<"L", "e", " ", " ", "N">>, <<"a">>, <<"X">>,
                          <<"N", "o", "S", "u", "c", "h", "P", "e", "r", "s", "o", "n">>},
          user_department \in {<<>>, <<"e", "n", "g">>, <<"E", "N">>, <<"s">>, <<"x">>} :
          GetUserProjectAssignment(user_name, user_department)

SpecKnowledge == KnowledgeInit /\ [][KnowledgeNext]_vars

(***************************************************************************)
(* The rate limiter under one thread (SpecLimiter) and under two threads   *)
(* that share the class attributes (SpecRace).  A thread calls             *)
(* get_chat_completion; each pass of its loop runs _apply_rate_limiting    *)
(* (read the clock and the last request time, sleep, record the time) and  *)
(* issues the request; a failed attempt sleeps 2 ** attempt seconds.       *)
(***************************************************************************)
\* get_chat_completion is called by thread c
GetChatCompletion(c) ==
    /\ callers[c].pc = "idle"
    /\ callers[c].calls < MaxCompletions
    /\ callers' = [callers EXCEPT ![c].pc = "check", ![c].attempt = 0]
    /\ UNCHANGED <<turnVars, now, last_request_time, spacing>>

\* _apply_rate_limiting up to its sleep: the clock and the last request
\* time are read and compared
CheckSpacing(c) ==
    /\ callers[c].pc = "check"
    /\ LET sleep == sleep_time(now, last_request_time)
       IN callers' = [callers EXCEPT ![c].pc = IF sleep > 0 THEN "sleep" ELSE "record",
                                     ![c].wake = IF sleep > 0 THEN now + sleep ELSE 0,
                                     ![c].seen = last_request_time]
    /\ UNCHANGED <<turnVars, now, last_request_time, spacing>>

\* a time.sleep of thread c is over: that of the limiter or the back-off
Wake(c) ==
    /\ callers[c].pc \in {"sleep", "backoff"}
    /\ now >= callers[c].wake
    /\ callers' = [callers EXCEPT ![c].pc = IF @ = "sleep" THEN "record" ELSE "check",
                                  ![c].wake = 0]
    /\ UNCHANGED <<turnVars, now, last_request_time, spacing>>

\* the last line of _apply_rate_limiting and the request that follows it
IssueRequest(c) ==
    /\ callers[c].pc = "record"
    /\ last_request_time' = now
    /\ spacing' = [count |-> IF spacing.count < 2 THEN spacing.count + 1 ELSE 2,
                   at |-> now, prev |-> spacing.at, by |-> c, prevBy |-> spacing.by,
                   stale |-> callers[c].seen # last_request_time]
    /\ callers' = [callers EXCEPT ![c].pc = "inflight", ![c].seen = 0]
    /\ UNCHANGED <<turnVars, now>>

\* the request of thread c returns a response, and so does its call
AttemptReturns(c) ==
    /\ callers[c].pc = "inflight"
    /\ callers' = [callers EXCEPT ![c].pc = "idle", ![c].attempt = 0,
                                  ![c].calls = @ + 1]
    /\ UNCHANGED <<turnVars, now, last_request_time, spacing>>

\* the request of thread c raises: back off and try again, or return None
AttemptRaises(c) ==
    /\ callers[c].pc = "inflight"
    /\ LET f == AttemptFailed(callers[c].attempt)
       IN callers' = IF f.kind = "retry"
                     THEN [callers EXCEPT ![c].pc = "backoff",
                                          ![c].wake = now + f.wait * TicksPerSecond,
                                          ![c].attempt = @ + 1]
                     ELSE [callers EXCEPT ![c].pc = "idle", ![c].attempt = 0,
                                          ![c].calls = @ + 1]
    /\ UNCHANGED <<turnVars, now, last_request_time, spacing>>

\* time passes: one tick, or up to the end of a sleep
Advance ==
    /\ now < MaxClock
    /\ \E t \in {now + 1} \cup {callers[c].wake : c \in DOMAIN callers} :
          /\ t > now
          /\ t <= MaxClock
          /\ now' = t
    /\ UNCHANGED <<turnVars, last_request_time, callers, spacing>>

\* the variables of the orchestrator, which takes no step here
TurnStart ==
    /\ env \in {e \in Envs : e.missing = {} /\ e.constructible /\ e.fsOK}
    /\ history = <<>>
    /\ transcript = env.prior
    /\ instance = TRUE
    /\ pc = "unbuilt"
    /\ attempt = 0
    /\ waits = <<>>
    /\ requests = 0
    /\ pending = <<>>
    /\ results = <<>>
    /\ ret = NoReturn
    /\ pre = <<>>
    /\ obs = NoObs
    /\ turns = 0
    /\ admins = 0

LimiterInit == TurnStart /\ LimiterStart(1, min_request_interval)

RaceInit == TurnStart /\ LimiterStart(2, MaxClock - RaceWindow)

LimiterNext ==
    \/ \E c \in DOMAIN callers : GetChatCompletion(c)
    \/ \E c \in DOMAIN callers : CheckSpacing(c)
    \/ \E c \in DOMAIN callers : Wake(c)
    \/ \E c \in DOMAIN callers : IssueRequest(c)
    \/ \E c \in DOMAIN callers : AttemptReturns(c)
    \/ \E c \in DOMAIN callers : AttemptRaises(c)
    \/ Advance

SpecLimiter == LimiterInit /\ [][LimiterNext]_vars

SpecRace == RaceInit /\ [][LimiterNext]_vars

(***************************************************************************)
(* Properties.                                                             *)
(***************************************************************************)
\* the last operation was a send_message and it has returned
SendReturned == pc = "idle" /\ obs.op = "send"

\* the running or last send_message has run all the tool calls it was given
DispatchDone ==
    obs.op = "send" /\ obs.first = "tools" /\ pc \in {"followup", "idle"}

\* where the assistant tool_calls message of the running or last turn is
TurnBase == Len(pre) + 2

\* C1: every assistant message with N tool_calls is followed by N tool
\* messages with the ids of the calls, in order; inside the dispatch loop the
\* assistant message is already there and only the calls not yet run lack
\* their tool message; no tool message stands outside such a group.
C1_ToolCallOrder ==
    /\ \A i \in DOMAIN history :
          history[i].tool_calls # <<>> =>
             /\ history[i].role = "assistant"
             /\ \A j \in 1..Len(history[i].tool_calls) :
                   IF i + j <= Len(history)
                   THEN /\ history[i + j].role = "tool"
                        /\ history[i + j].tool_call_id = history[i].tool_calls[j].id
                   ELSE /\ pc = "dispatch"
                        /\ i + Len(results) = Len(history)
                        /\ Len(results) + Len(pending) = Len(history[i].tool_calls)
    /\ \A k \in DOMAIN history :
          history[k].role = "tool" =>
             \E i \in 1..(k - 1) :
                /\ history[i].tool_calls # <<>>
                /\ k - i <= Len(history[i].tool_calls)

\* C1 witness: a finished turn left an assistant message with two or more
\* tool_calls and its tool messages, and later messages follow them
C1_Witness ==
    /\ pc = "idle"
    /\ \E i \in DOMAIN history :
          /\ Len(history[i].tool_calls) >= 2
          /\ i + Len(history[i].tool_calls) < Len(history)
          /\ history[i + 2].role = "tool"
          /\ history[i + 2].tool_call_id = history[i].tool_calls[2].id

\* C2: when the first completion of a turn is None, send_message leaves the
\* history as it was before the call and returns the "trouble connecting"
\* reply.
C2_NullRollback ==
    (SendReturned /\ obs.first = "null") =>
        /\ history = pre
        /\ ret = [raised |-> FALSE, text |-> TroubleConnecting]

\* C2 witness: a null first completion after an earlier turn grew the history
C2_Witness ==
    /\ SendReturned
    /\ obs.first = "null"
    /\ Len(pre) > Len(InitialHistory)
    /\ history = pre

\* C3: a send_message with valid input, called when the history ends on an
\* assistant message, returns a non-empty text and leaves the history ending
\* on an assistant message that carries no tool_calls.
C3_EndsOnAssistant ==
    (SendReturned /\ obs.valid /\ Last(pre).role = "assistant") =>
        /\ Truthy(ret.text)
        /\ Last(history).role = "assistant"
        /\ Last(history).tool_calls = <<>>

\* C4: in a tool-call turn the text send_message returns is the content of
\* the last message of the history, an assistant message.
C4_FinalTextInHistory ==
    (SendReturned /\ obs.first = "tools") =>
        Last(history) = Msg("assistant", ret.text)

\* C5: send_message never raises: whatever the input, the endpoint, the tool
\* calls and the transcript file do, its caller gets a text.
C5_AlwaysText ==
    /\ ~ret.raised
    /\ SendReturned =>
          /\ ret.text # None
          /\ \A i \in DOMAIN ret.text : ret.text[i].n >= 1

\* C5 witness: the transcript cannot be written, a tool call raised and the
\* follow-up completion failed, and send_message returned a text
C5_Witness ==
    /\ SendReturned
    /\ ~env.fsOK
    /\ obs.follow = "null"
    /\ \E j \in DOMAIN obs.calls :
          history[TurnBase + j].content = FunctionFailed(obs.calls[j].name)
    /\ Truthy(ret.text)

C7_BoundedRetry ==
    /\ requests <= max_retries
    /\ waits = SubSeq(<<1, 2, 4, 8, 16>>, 1, Len(waits))
    /\ pc = "complete" =>
          /\ attempt = requests
          /\ attempt < max_retries
          /\ Len(waits) = requests
    /\ (pc = "returned" /\ obs.first \in {"tools", "direct", "empty"}) =>
          /\ requests >= 1
          /\ Len(waits) = requests - 1
    /\ (pc = "returned" /\ obs.first = "null" /\ history # <<>>) =>
          /\ requests = max_retries
          /\ Len(waits) = max_retries - 1

\* C7 witness: every attempt failed and the call returned None
C7_Witness ==
    /\ pc = "returned"
    /\ obs.first = "null"
    /\ requests = max_retries
    /\ waits = <<1, 2>>

C9_Raises(call) ==
    /\ call.name = "get_user_project_assignment"
    /\ call.arguments \in {ArgsAbsent, ArgsMalformed, ArgsEmptyObject, ArgsWrongKey,
                           ArgsArray}

\* what the function of a call that does not raise returns
C9_OwnResult(call) ==
    CASE call.name = "get_member_information" -> get_member_information(env.files)
      [] call.name = "get_process_information" -> get_process_information(env.files)
      [] call.name = "get_techstack_information" ->
            get_techstack_information(env.files)
      [] OTHER ->
            get_user_project_assignment(json_loads(call.arguments).user_name,
                                        json_loads(call.arguments).user_department,
                                        env.files)

\* C9: after the dispatch of N tool calls exactly N tool messages follow the
\* assistant message, one for each call in order: "Unknown function" for a
\* name that is not registered, "Function execution failed" for a call that
\* raises, and for every other call the result of its own function.
C9_FailureIsolation ==
    DispatchDone =>
        LET N == Len(obs.calls)
        IN /\ Len(history) >= TurnBase + N
           /\ history[TurnBase].tool_calls = obs.calls
           /\ \A j \in 1..N :
                 /\ history[TurnBase + j].role = "tool"
                 /\ history[TurnBase + j].tool_call_id = obs.calls[j].id
                 /\ history[TurnBase + j].content =
                       IF obs.calls[j].name \notin function_map
                       THEN UnknownFunction(obs.calls[j].name)
                       ELSE IF C9_Raises(obs.calls[j])
                            THEN FunctionFailed(obs.calls[j].name)
                            ELSE C9_OwnResult(obs.calls[j])
           /\ \A k \in (TurnBase + N + 1)..Len(history) : history[k].role # "tool"

\* C9 witness: a batch in which a call raised and a later call still got the
\* result of its own function
C9_Witness ==
    /\ DispatchDone
    /\ \E j \in DOMAIN obs.calls : \E k \in DOMAIN obs.calls :
          /\ j < k
          /\ C9_Raises(obs.calls[j])
          /\ history[TurnBase + j].content = FunctionFailed(obs.calls[j].name)
          /\ obs.calls[k].name \in function_map
          /\ ~C9_Raises(obs.calls[k])
          /\ history[TurnBase + k].content = C9_OwnResult(obs.calls[k])

\* C10: a call of a registered function whose arguments are not valid JSON
\* gets as its tool message what the function returns when it is called with
\* no arguments (for the lookup: with no name).
C10_MalformedArgsZeroArg ==
    DispatchDone =>
        \A j \in DOMAIN obs.calls :
            (obs.calls[j].name \in function_map /\ obs.calls[j].arguments = ArgsMalformed)
            => history[TurnBase + j].content =
                  C9_OwnResult([obs.calls[j] EXCEPT !.arguments = ArgsEmptyObject])

\* C11: a send_message makes at most two get_chat_completion calls and none
\* when validation fails; the first carries the history with the stripped
\* user message appended and the schema of the four tools; the second is
\* made if and only if the first response carried tool calls, after the
\* assistant tool_calls message and every tool message were appended, over
\* that extended history and without tools.
C11_TurnShape ==
    LET calls == obs.completions
        N == Len(obs.calls)
    IN /\ Len(calls) <= 2
       /\ (obs.op # "send" \/ ~obs.valid) => calls = <<>>
       /\ (obs.op = "send" /\ obs.valid) =>
             /\ Len(calls) >= 1
             /\ calls[1] = [messages |-> Append(pre, Msg("user", strip(obs.input))),
                            tools |-> function_definitions]
       /\ pc \in {"first", "dispatch"} => Len(calls) = 1
       /\ pc = "followup" => Len(calls) = 2
       /\ SendReturned => (Len(calls) = 2 <=> obs.first = "tools")
       /\ Len(calls) = 2 =>
             /\ obs.first = "tools"
             /\ pending = <<>>
             /\ calls[2].tools = <<>>
             /\ Len(calls[2].messages) = TurnBase + N
             /\ SubSeq(calls[2].messages, 1, TurnBase - 1) = calls[1].messages
             /\ calls[2].messages[TurnBase].role = "assistant"
             /\ calls[2].messages[TurnBase].tool_calls = obs.calls
             /\ \A j \in 1..N :
                   /\ calls[2].messages[TurnBase + j].role = "tool"
                   /\ calls[2].messages[TurnBase + j].tool_call_id = obs.calls[j].id

\* C11 witness: a returned turn with two tool calls and its follow-up call
C11_Witness ==
    /\ SendReturned
    /\ Len(obs.completions) = 2
    /\ Len(obs.calls) >= 2
    /\ obs.completions[2].tools = <<>>
    /\ Len(obs.completions[2].messages) = Len(pre) + 2 + Len(obs.calls)

\* a is a prefix of b
IsPrefix(a, b) == Len(a) <= Len(b) /\ SubSeq(b, 1, Len(a)) = a

\* C12: between resets the history only grows at its end: during and after a
\* send_message or set_additional_context the history the operation started
\* from is a prefix of the history (a rollback takes away only what the same
\* call appended); so the history of a constructed assistant always starts
\* with the one system message and the few-shot block, unchanged.
C12_AppendOnly ==
    /\ obs.op \in {"send", "context"} => IsPrefix(pre, history)
    /\ pc # "unbuilt" =>
          /\ IsPrefix(InitialHistory, history)
          /\ history[1] = Msg("system", SYSTEM_PROMPT)
          /\ SubSeq(history, 2, NumFewShot + 1) = FEW_SHOT_EXAMPLES
          /\ \A i \in 2..Len(history) : history[i].role # "system"

\* C12 witness: a turn that was rolled back after earlier operations had
\* grown the history
C12_Witness ==
    /\ SendReturned
    /\ obs.valid
    /\ obs.first \in {"null", "empty"}
    /\ Len(pre) > Len(InitialHistory)
    /\ history = pre

\* a valid send_message has returned and its first get_chat_completion
\* returned a response object
FirstResponded == SendReturned /\ obs.valid /\ ~obs.response.isNone

\* C13: when the first response has content and no tool calls, send_message
\* appends exactly two messages, the stripped user message and an assistant
\* message with that content, and returns the content.
C13_DirectBranch ==
    (/\ FirstResponded
     /\ obs.response.choices # <<>>
     /\ obs.response.choices[1].tool_calls = <<>>
     /\ Truthy(obs.response.choices[1].content)) =>
        /\ history = pre \o <<Msg("user", strip(obs.input)),
                              Msg("assistant", obs.response.choices[1].content)>>
        /\ ret = [raised |-> FALSE, text |-> obs.response.choices[1].content]

\* C13 witness: a direct answer to a message with surrounding blanks
C13_Witness ==
    /\ FirstResponded
    /\ obs.response = Response(Tok("ANSWER"), <<>>)
    /\ obs.input # strip(obs.input)
    /\ Len(history) = Len(pre) + 2
    /\ ret.text = Tok("ANSWER")

\* C14: when the first response has no choices, or neither tool calls nor
\* content, the user message is removed again, so the history is the one
\* before the call, the "no proper response" reply is returned and no
\* follow-up get_chat_completion call is made.
C14_NoUsableResponse ==
    (/\ FirstResponded
     /\ \/ obs.response.choices = <<>>
        \/ /\ obs.response.choices[1].tool_calls = <<>>
           /\ ~Truthy(obs.response.choices[1].content)) =>
        /\ history = pre
        /\ ret = [raised |-> FALSE, text |-> NoProperResponse]
        /\ Len(obs.completions) = 1

\* C14 witness: a response without choices after an earlier turn
C14_Witness ==
    /\ FirstResponded
    /\ obs.response = NoChoices
    /\ Len(pre) > Len(InitialHistory)
    /\ ret.text = NoProperResponse

\* C15: when get_chat_completion raises in a turn (the shared client cannot
\* be created: a required value is missing or the construction fails), the
\* user message appended by the turn is removed, so the history is the one
\* before the call, an apology is returned and nothing is raised to the
\* caller.
C15_ExceptionRollback ==
    (/\ SendReturned
     /\ obs.valid
     /\ (required_configs \cap env.missing) # {} \/ ~env.constructible) =>
        /\ obs.first = "raised"
        /\ history = pre
        /\ ret = [raised |-> FALSE, text |-> TroubleAIService]

\* C15 witness: the client cannot be constructed, a context message was set
\* before, and the turn was rolled back to the history ending on it
C15_Witness ==
    /\ SendReturned
    /\ obs.valid
    /\ ~env.constructible
    /\ obs.first = "raised"
    /\ Len(pre) = Len(InitialHistory) + 1
    /\ Last(pre).role = "user"
    /\ history = pre

C17_BlankRejected ==
    (obs.op = "send" /\ strip(obs.input) = <<>>) =>
        /\ pc = "idle"
        /\ ~obs.valid
        /\ ret.text = IF obs.input = <<>> THEN PleaseEnterMessage
                      ELSE PleaseEnterNonEmpty
        /\ ~ret.raised
        /\ history = pre
        /\ obs.completions = <<>>
        /\ requests = 0

\* C17 witness: a whitespace-only message after a turn that grew the history
C17_Witness ==
    /\ SendReturned
    /\ obs.input = BlankInput
    /\ ret.text = PleaseEnterNonEmpty
    /\ Len(pre) > Len(InitialHistory)
    /\ history = pre

\* C18: reset_conversation, from whatever history, leaves the history equal
\* to the system message followed by the few-shot examples; applied to a
\* history that a reset has just built, it leaves that history as it is.
C18_ResetIdempotent ==
    obs.op = "reset" =>
        /\ pc = "idle"
        /\ history = <<Msg("system", SYSTEM_PROMPT)>> \o FEW_SHOT_EXAMPLES
        /\ Len(history) = NumFewShot + 1
        /\ pre = <<Msg("system", SYSTEM_PROMPT)>> \o FEW_SHOT_EXAMPLES => history = pre

\* C18 witness: a reset of a history that held a tool-call turn
C18_Witness ==
    /\ obs.op = "reset"
    /\ Len(pre) > NumFewShot + 3
    /\ \E i \in DOMAIN pre : pre[i].role = "tool"
    /\ history = InitialHistory

\* C19: set_additional_context with a text that is not blank appends one
\* user message, "[CONTEXT] " and the stripped text, at the end of the
\* history; with an empty or whitespace-only text it leaves the history as it
\* is; either way no get_chat_completion call and no request is made and the
\* transcript is not written.
C19_ContextOnlyAppends ==
    obs.op = "context" =>
        /\ pc = "idle"
        /\ history = IF strip(obs.input) = <<>> THEN pre
                     ELSE Append(pre, [role |-> "user",
                                       content |-> Tok("[CONTEXT] ") \o strip(obs.input),
                                       tool_calls |-> <<>>, tool_call_id |-> ""])
        /\ obs.completions = <<>>
        /\ requests = 0
        /\ transcript = obs.transcript

\* C19 witness: a context with blanks around it, set after a turn
C19_Witness ==
    /\ obs.op = "context"
    /\ obs.input # strip(obs.input)
    /\ strip(obs.input) # <<>>
    /\ Len(pre) > Len(InitialHistory)
    /\ Len(history) = Len(pre) + 1
    /\ Last(history).role = "user"
    /\ transcript.lines # <<>>

\* C20: a send_message with valid input adds two entries to a transcript
\* file that can be written: first a user entry with the message as given,
\* not stripped, which is there before the first request and for the whole
\* turn, then an assistant entry with exactly the text returned, whatever
\* the turn came to; nothing else is written, and a transcript that cannot
\* be written stays as it was.
C20_TranscriptPerTurn ==
    (obs.op = "send" /\ obs.valid) =>
        LET before == obs.transcript.lines
            user == [role |-> "user", content |-> obs.input]
            assistant == [role |-> "assistant", content |-> ret.text]
        IN IF env.fsOK
           THEN /\ transcript.exists
                /\ pc \in {"first", "dispatch", "followup"} =>
                      transcript.lines = before \o <<user>>
                /\ pc = "idle" => transcript.lines = before \o <<user, assistant>>
           ELSE transcript = obs.transcript

\* C20 witness: a tool-call turn that ended on the fallback text, with both
\* entries in a transcript that already held lines
C20_Witness ==
    /\ SendReturned
    /\ obs.valid
    /\ env.fsOK
    /\ obs.first = "tools"
    /\ obs.follow # "text"
    /\ obs.transcript.lines # <<>>
    /\ obs.input # strip(obs.input)
    /\ Len(transcript.lines) = Len(obs.transcript.lines) + 2
    /\ Last(transcript.lines) = [role |-> "assistant", content |-> ret.text]

\* C21: when the transcript cannot be written, send_message raises nothing
\* and returns the text and leaves the history that the turn itself
\* produces: the validation reply with the history untouched for an invalid
\* message, otherwise the outcome of the completion calls; the transcript
\* stays as it was.
C21_TranscriptFailureSwallowed ==
    (SendReturned /\ ~env.fsOK) =>
        /\ ~ret.raised
        /\ ret.text # TechnicalDifficulties
        /\ transcript = obs.transcript
        /\ obs.valid <=> _validate_input(obs.input).ok
        /\ ~obs.valid => (history = pre /\ ret.text = _validate_input(obs.input).msg)
        /\ obs.valid => Len(obs.completions) >= 1
        /\ (obs.valid /\ obs.response = Response(Tok("ANSWER"), <<>>)) =>
              /\ ret.text = Tok("ANSWER")
              /\ history = pre \o <<Msg("user", strip(obs.input)),
                                    Msg("assistant", Tok("ANSWER"))>>
        /\ (obs.valid /\ obs.completions # <<>> /\ obs.response = NoResponse) =>
              /\ history = pre
              /\ ret.text \in {TroubleConnecting, TroubleAIService}
        /\ (obs.valid /\ ~obs.response.isNone /\ obs.response.choices # <<>>
              /\ obs.response.choices[1].tool_calls # <<>>) =>
              /\ Len(history) >= TurnBase + Len(obs.calls)
              /\ Truthy(ret.text)

\* C21 witness: a direct answer returned while the transcript cannot be
\* written
C21_Witness ==
    /\ SendReturned
    /\ ~env.fsOK
    /\ obs.valid
    /\ obs.response = Response(Tok("ANSWER"), <<>>)
    /\ ret.text = Tok("ANSWER")
    /\ transcript = obs.transcript

\* C22 as claimed: after reset_conversation, whatever the transcript was
\* before, a file system that works holds a transcript file with exactly the
\* marker line.
C22_MarkerAlways ==
    (obs.op = "reset" /\ env.fsOK) =>
        /\ transcript.exists
        /\ transcript.lines = <<ClearedMarker>>

\* C22 as amended: reset_conversation always resets the history; a
\* transcript file that exists and can be written then holds exactly the
\* marker line and no earlier entry; a file that does not exist is not
\* created, and a file that cannot be written keeps its entries.
C22_ResetClearsTranscript ==
    obs.op = "reset" =>
        /\ history = <<Msg("system", SYSTEM_PROMPT)>> \o FEW_SHOT_EXAMPLES
        /\ IF obs.transcript.exists /\ env.fsOK
           THEN transcript = [exists |-> TRUE, lines |-> <<ClearedMarker>>]
           ELSE transcript = obs.transcript

\* C22 witness: a reset after a turn had added its entries to the transcript
C22_Witness ==
    /\ obs.op = "reset"
    /\ env.fsOK
    /\ Len(obs.transcript.lines) >= 3
    /\ Last(obs.transcript.lines).role = "assistant"
    /\ transcript.lines = <<ClearedMarker>>
    /\ history = InitialHistory

\* C23: every request attempt of a sequential caller, the first of a call
\* and every retry, of a first and of a later completion, is issued when at
\* least the minimum interval has passed since the last request time the
\* limiter read, and that moment becomes the last request time; two
\* consecutive attempts are at least the minimum interval apart, and the
\* recorded time never decreases.
C23_MinimumSpacing ==
    /\ [](/\ \A c \in DOMAIN callers :
                callers[c].pc = "record" =>
                    now - callers[c].seen >= min_request_interval
          /\ spacing.count >= 1 => last_request_time = spacing.at
          /\ spacing.count >= 2 =>
                spacing.at - spacing.prev >= min_request_interval)
    /\ [][/\ last_request_time' >= last_request_time
          /\ \A c \in DOMAIN callers :
                (callers[c].pc # "inflight" /\ callers'[c].pc = "inflight") =>
                    /\ callers[c].pc = "record"
                    /\ last_request_time' = now
                    /\ now - last_request_time >= min_request_interval]_vars

\* the follow-up completion of a caller issued its request exactly the
\* minimum interval after the request before it
C23_Witness ==
    /\ DOMAIN callers = {1}
    /\ callers[1].calls >= 1
    /\ callers[1].pc = "inflight"
    /\ spacing.count >= 2
    /\ spacing.at - spacing.prev = min_request_interval

\* C24: the last request time is shared by all threads and read and written
\* without a lock: two requests less than the minimum interval apart are
\* issued only by two different threads, the second of which passed the
\* check before the first recorded its time; and with two threads that
\* happens.
C24_BurstOnlyByRace ==
    (spacing.count >= 2 /\ spacing.at - spacing.prev < min_request_interval) =>
        (DOMAIN callers = {1, 2} /\ spacing.by # spacing.prevBy /\ spacing.stale)

\* both threads passed the check before either recorded, and their
\* requests were issued less than the minimum interval apart
C24_Witness ==
    /\ spacing.count >= 2
    /\ spacing.stale
    /\ spacing.by # spacing.prevBy
    /\ spacing.at - spacing.prev < min_request_interval
    /\ last_request_time = spacing.at

\* C25: get_conversation_summary leaves the history as it was, and what it
\* returns counts that history: total_messages is its length, and
\* user_messages, assistant_messages and tool_calls are the numbers of its
\* messages with role user, assistant and tool, which with the one system
\* message add up to total_messages.
C25_SummaryCounts ==
    obs.op = "summary" =>
        /\ history = pre
        /\ ret.total_messages = Len(pre)
        /\ ret.user_messages = Cardinality({i \in DOMAIN pre : pre[i].role = "user"})
        /\ ret.assistant_messages =
               Cardinality({i \in DOMAIN pre : pre[i].role = "assistant"})
        /\ ret.tool_calls = Cardinality({i \in DOMAIN pre : pre[i].role = "tool"})
        /\ ret.total_messages =
               ret.user_messages + ret.assistant_messages + ret.tool_calls + 1

\* the summary of a history with a context message and a tool-call turn
\* whose calls number more than its assistant messages with tool calls
C25_Witness ==
    /\ obs.op = "summary"
    /\ ret.tool_calls >= 2
    /\ \E i \in DOMAIN history : history[i].tool_calls # <<>>
    /\ ret.user_messages > Len(WithRole(InitialHistory, "user")) + 1

\* the file the last accessor call reads
FileOf(op) ==
    CASE op = "get_process_information" -> "process"
      [] op = "get_techstack_information" -> "techstack"
      [] OTHER -> "member"

\* the state of the file the last call reads
FileState == env.files[FileOf(obs.op)]

\* what the getter op returns when its file is in the given state
PayloadAt(op, state) ==
    CASE op = "get_process_information" ->
            get_process_information([env.files EXCEPT !.process = state])
      [] op = "get_techstack_information" ->
            get_techstack_information([env.files EXCEPT !.techstack = state])
      [] OTHER -> get_member_information([env.files EXCEPT !.member = state])

\* the value of a key of a flat payload
JsonValue(t, key) ==
    LET i == CHOOSE i \in DOMAIN t : t[i] = [c |-> key, n |-> 1] IN t[i + 1]

Getters ==
    {"get_member_information", "get_process_information", "get_techstack_information"}

FailureKinds == {"missing", "unreadable", "malformed"}

\* the last call was a getter whose file is missing, unreadable or malformed
GetterFailed == obs.op \in Getters /\ FileState \in FailureKinds

\* the message of the last payload is not the message of another failure kind
MessagePerKind ==
    \A other \in FailureKinds \ {FileState} :
        JsonValue(PayloadAt(obs.op, other), "message") # JsonValue(ret.value, "message")

\* C26: the four accessors never raise: whatever the state of the file
\* (missing, unreadable, malformed, a JSON value of another shape, valid),
\* the call returns a text; get_member_information on a missing file
\* returns a payload with the key error.
C26_AccessorNeverRaises ==
    obs.op \in Getters \cup {"get_user_project_assignment"} =>
        /\ ~ret.raised
        /\ ret.value # <<>>
        /\ (obs.op = "get_member_information" /\ env.files.member = "missing") =>
               JsonHasKey(ret.value, "error")

\* a getter returned a payload for a file that holds a JSON scalar
C26_Witness ==
    /\ obs.op = "get_process_information"
    /\ env.files.process = "scalar"
    /\ ~ret.raised
    /\ JsonHasKey(ret.value, "error")

\* C27 as stated: every failure payload of the three getters has the keys
\* message and contact, and its message is that of no other failure kind.
C27_MessageAndContact ==
    GetterFailed =>
        /\ JsonHasKey(ret.value, "message")
        /\ JsonHasKey(ret.value, "contact")
        /\ MessagePerKind

\* C27: every failure payload of the three getters has the keys error and
\* message, and its message is that of no other failure kind; it has the key
\* contact, except that for a missing process or tech stack file it has the
\* key alternative instead.
C27_ErrorPayloadShape ==
    GetterFailed =>
        /\ JsonHasKey(ret.value, "error")
        /\ JsonHasKey(ret.value, "message")
        /\ MessagePerKind
        /\ IF obs.op # "get_member_information" /\ FileState = "missing"
           THEN JsonHasKey(ret.value, "alternative") /\ ~JsonHasKey(ret.value, "contact")
           ELSE JsonHasKey(ret.value, "contact")

\* the payload of get_process_information for an unreadable file
C27_Witness ==
    /\ obs.op = "get_process_information"
    /\ env.files.process = "unreadable"
    /\ JsonHasKey(ret.value, "contact")
    /\ JsonValue(ret.value, "message") #
           JsonValue(PayloadAt("get_process_information", "malformed"), "message")

\* the last call was a lookup
LookedUp == obs.op = "get_user_project_assignment"

\* the name of the last lookup is empty or all spaces
BlankLookup == LookedUp /\ \A i \in DOMAIN obs.input : obs.input[i] = " "

\* C28: a lookup with an empty or blank name returns the user_found = false
\* payload that asks for a valid name, and does so before the member file
\* is looked for, whatever the state of that file.
C28_BlankNameRejected ==
    BlankLookup =>
        /\ ~ret.raised
        /\ ~ret.accessed
        /\ JsonValue(ret.value, "user_found") = Tok("false")[1]
        /\ JsonValue(ret.value, "error") =
               Tok("Please provide a valid name to search for project assignments.")[1]
        /\ JsonHasKey(ret.value, "suggestion")

\* a blank name looked up while the member file is unreadable
C28_Witness ==
    /\ BlankLookup
    /\ obs.input = <<" ", " ">>
    /\ env.files.member = "unreadable"
    /\ ~ret.accessed

\* the (project, member) pairs of the member file
AllAssignments ==
    LET records == MemberRecords(env.files.member)
    IN UNION {{[project_code |-> records[p].project_code,
                member |-> records[p].members[m]] :
                  m \in DOMAIN records[p].members} : p \in DOMAIN records}

\* the pairs the last lookup returned
Returned_projects == {ret.projects[i] : i \in DOMAIN ret.projects}

\* the last call was a lookup of a name that is not blank in a valid file
ValidLookup ==
    LookedUp /\ ~BlankLookup /\ env.files.member \in {"valid", "namesake"}

\* the name of the last lookup, stripped
SearchName == Expand(strip(Str(obs.input)))

\* the three tests of the claim, on one search string
MatchesAsWhole(search, stored_name) ==
    \/ Contains(lower(stored_name), search)
    \/ startswith(lower(stored_name), search)
    \/ \E p \in DOMAIN split(lower(stored_name)) : split(lower(stored_name))[p] = search

\* C29 as stated: without a department, the members returned are exactly
\* those whose stored name has the lowercased search name as a substring, as
\* a prefix or as one of its words.
C29_WholeNameRule ==
    (ValidLookup /\ obs.department = <<>>) =>
        Returned_projects =
            {a \in AllAssignments : MatchesAsWhole(lower(SearchName), a.member.name)}

\* C29: without a department, the members returned are exactly those whose
\* lowercased stored name has as a substring one of the search variations:
\* the lowercased search name, its first word, or its first two words
\* joined by a space; so every member the claim's rule names is returned,
\* and so are those that share only the first word.
C29_VariationRule ==
    (ValidLookup /\ obs.department = <<>>) =>
        /\ Returned_projects =
               {a \in AllAssignments :
                   \E k \in 1..3 :
                       Contains(lower(a.member.name), search_variations(SearchName)[k])}
        /\ {a \in AllAssignments : MatchesAsWhole(lower(SearchName), a.member.name)}
               \subseteq Returned_projects
        /\ Len(ret.projects) = Cardinality(Returned_projects)

\* a lookup of "Nam Le" returned Nam Vu Son, whose name shares its first
\* word only
C29_Witness ==
    /\ ValidLookup
    /\ obs.department = <<>>
    /\ obs.input = <<"N", "a", "m", " ", "L", "e">>
    /\ \E i \in DOMAIN ret.projects : ret.projects[i].member.name = NamVuSon
    /\ ~MatchesAsWhole(lower(SearchName), NamVuSon)

\* C30: with a department, the members returned are exactly the
\* name-matching members whose department has the lowercased department as
\* a substring of its lowercased text; without one, they are all the
\* name-matching members.
C30_DepartmentFilter ==
    ValidLookup =>
        Returned_projects =
            {a \in AllAssignments :
                /\ name_match(SearchName, a.member.name)
                /\ \/ obs.department = <<>>
                   \/ Contains(lower(a.member.department), lower(obs.department))}

\* a lookup with department "EN" returned one of the two members whose
\* name matches
C30_Witness ==
    /\ ValidLookup
    /\ obs.department = <<"E", "N">>
    /\ Len(ret.projects) = 1
    /\ ret.projects[1].member.department = Engineering
    /\ Cardinality({a \in AllAssignments : name_match(SearchName, a.member.name)}) > 1

\* the last call looked up the given name without a department
LookedUpName(name) == LookedUp /\ obs.input = name /\ obs.department = <<>>

\* the member file has Nam Vu Son on project AIAE001
HasNamVuSon ==
    \E a \in AllAssignments : a.project_code = "AIAE001" /\ a.member.name = NamVuSon

\* the records of the member file whose lowercased name has the given text
NameContains(text) == {a \in AllAssignments : Contains(lower(a.member.name), text)}

\* C31 as stated: whenever the member file has Nam Vu Son on AIAE001, the
\* lookup of "Nam Vu Son" returns user_found = true, total_projects = 1 and
\* one entry, that of AIAE001.
C31_ExactlyOneEntry ==
    (LookedUpName(NamVuSon) /\ HasNamVuSon) =>
        /\ JsonValue(ret.value, "user_found") = Tok("true")[1]
        /\ JsonValue(ret.value, "total_projects") = Rep("1", 1)[1]
        /\ Len(ret.projects) = 1
        /\ ret.projects[1].project_code = "AIAE001"

\* C31: whenever the member file has Nam Vu Son on AIAE001, the lookup of
\* "Nam Vu Son" returns user_found = true; its entries are the records whose
\* lowercased name contains "nam", the AIAE001 record among them, and
\* total_projects is their number; so there is exactly one entry, that of
\* AIAE001, when no other record has "nam" in its name.
C31_EntryPerNamesake ==
    (LookedUpName(NamVuSon) /\ HasNamVuSon) =>
        /\ JsonValue(ret.value, "user_found") = Tok("true")[1]
        /\ Returned_projects = NameContains(<<"n", "a", "m">>)
        /\ \E i \in DOMAIN ret.projects :
              /\ ret.projects[i].project_code = "AIAE001"
              /\ ret.projects[i].member.name = NamVuSon
        /\ JsonValue(ret.value, "total_projects") = Rep("1", Len(ret.projects))[1]
        /\ Len(ret.projects) = Cardinality(NameContains(<<"n", "a", "m">>))
        /\ Cardinality(NameContains(<<"n", "a", "m">>)) = 1 =>
               (Len(ret.projects) = 1 /\ ret.projects[1].project_code = "AIAE001")

\* "Nam Vu Son" looked up in a file that also has Nam Le on AIAE002: two
\* entries
C31_Witness ==
    /\ LookedUpName(NamVuSon)
    /\ env.files.member = "namesake"
    /\ Len(ret.projects) = 2
    /\ ret.projects[2].project_code = "AIAE002"

NoSuchPerson == <<"N", "o", "S", "u", "c", "h", "P", "e", "r", "s", "o", "n">>

C38_FirstWordRule ==
    (ValidLookup /\ obs.department = <<>>) =>
        Returned_projects = NameContains(split(lower(SearchName))[1])

\* "Vu X" returned Nam Vu Son, and "Nam Vu Son" returned Nam Le
C38_Witness ==
    /\ ValidLookup
    /\ obs.department = <<>>
    /\ \/ /\ obs.input = <<"V", "u", " ", "X">>
          /\ Returned_projects = NameContains(<<"v", "u">>)
          /\ Len(ret.projects) = 1
          /\ ret.projects[1].member.name = NamVuSon
       \/ /\ obs.input = NamVuSon
          /\ env.files.member = "namesake"
          /\ Len(ret.projects) = 2

\* the turn asked for tool calls and its follow-up completion gave no text
FellBack ==
    /\ SendReturned
    /\ HasToolCalls(obs.response)
    /\ obs.follow \in {"null", "empty"}

\* C33: when the follow-up completion of a tool-call turn with N >= 1 calls
\* returns nothing or an empty content, send_message returns the fallback
\* text ending with the content of the last tool message, verbatim; no
\* third completion call is made, and the history keeps the user message,
\* the assistant tool_calls message and the N tool messages, and nothing
\* after them.
C33_FallbackOnToolResult ==
    FellBack =>
        LET N == Len(obs.response.choices[1].tool_calls)
        IN /\ N >= 1
           /\ Len(history) = TurnBase + N
           /\ SubSeq(history, 1, Len(pre)) = pre
           /\ history[Len(pre) + 1] = Msg("user", strip(obs.input))
           /\ history[TurnBase].role = "assistant"
           /\ history[TurnBase].tool_calls = obs.response.choices[1].tool_calls
           /\ \A j \in 1..N :
                 /\ history[TurnBase + j].role = "tool"
                 /\ history[TurnBase + j].tool_call_id =
                        obs.response.choices[1].tool_calls[j].id
           /\ Truthy(history[TurnBase + N].content)
           /\ ret.text = Concat(RetrievedPrefix, history[TurnBase + N].content)
           /\ ~ret.raised
           /\ Len(obs.completions) = 2

\* a turn of three calls whose results differ fell back on the third result
C33_Witness ==
    /\ FellBack
    /\ obs.follow = "empty"
    /\ Len(obs.response.choices[1].tool_calls) = 3
    /\ history[TurnBase + 1].content # history[TurnBase + 3].content
    /\ ret.text = Concat(RetrievedPrefix, history[TurnBase + 3].content)

\* the line breaks of the message sent, surrounding whitespace apart
LineBreaks == count(strip(obs.input), "\n")

InvalidSent ==
    /\ obs.op = "send"
    /\ \/ strip(obs.input) = <<>>
       \/ len(strip(obs.input)) > MaxMessageLength
       \/ LineBreaks > MaxLineBreaks

\* C37: a send_message with an invalid message (empty, blank, too long, too
\* many line breaks) still adds two entries to a transcript file that can be
\* written: a user entry with the message as given, not stripped, then an
\* assistant entry with the rejection text returned, and nothing else; the
\* history is the one before the call; a transcript that cannot be written
\* stays as it was.
C37_RejectionLogged ==
    InvalidSent =>
        /\ pc = "idle"
        /\ history = pre
        /\ obs.completions = <<>>
        /\ ~ret.raised
        /\ ret.text \in {PleaseEnterMessage, PleaseEnterNonEmpty, MessageTooLong,
                         TooManyLineBreaks}
        /\ IF env.fsOK
           THEN /\ transcript.exists
                /\ transcript.lines = obs.transcript.lines
                       \o << [role |-> "user", content |-> obs.input],
                             [role |-> "assistant", content |-> ret.text] >>
           ELSE transcript = obs.transcript

\* a blank message was rejected after an answered turn: the transcript has
\* the two entries of that turn, then the blanks as typed and the rejection
C37_Witness ==
    /\ InvalidSent
    /\ env.fsOK
    /\ obs.input = BlankInput
    /\ \E i \in DOMAIN obs.transcript.lines : obs.transcript.lines[i].role = "user"
    /\ Len(transcript.lines) = Len(obs.transcript.lines) + 2
    /\ transcript.lines[Len(transcript.lines) - 1] =
           [role |-> "user", content |-> BlankInput]
    /\ Last(transcript.lines) = [role |-> "assistant", content |-> PleaseEnterNonEmpty]
    /\ history = pre
    /\ Len(pre) > Len(InitialHistory)

\* the user messages of a history
UserMessages(h) == Len(WithRole(h, "user"))

\* C35: the body of __send_message runs once for a send_message, also when
\* its get_chat_completion raises: the exception is turned into the text
\* returned, so the @retry around the body has nothing to run again; during
\* and after the call the history has the user messages it had before and
\* at most one more, the message sent.
C35_BodyRunsOnce ==
    obs.op = "send" =>
        /\ obs.runs = 1
        /\ UserMessages(history) \in {UserMessages(pre), UserMessages(pre) + 1}
        /\ UserMessages(history) = UserMessages(pre) + 1 =>
              /\ Len(history) > Len(pre)
              /\ history[Len(pre) + 1] = Msg("user", strip(obs.input))
        /\ (pc = "idle" /\ obs.first = "raised") =>
              /\ ret = [raised |-> FALSE, text |-> TroubleAIService]
              /\ history = pre

\* a valid message whose get_chat_completion raised for a missing
\* configuration value: one run of the body, one text returned
C35_Witness ==
    /\ SendReturned
    /\ obs.first = "raised"
    /\ env.missing # {}
    /\ strip(obs.input) # <<>>
    /\ len(strip(obs.input)) <= MaxMessageLength
    /\ obs.runs = 1
    /\ ret.text = TroubleAIService
    /\ history = pre

\* C39 as stated: once an assistant is constructed, the transcript holds no
\* entry logged before the construction.
C39_EarlierEntriesRemoved ==
    obs.op = "construct" =>
        \A i \in DOMAIN transcript.lines : transcript.lines[i] = ClearedMarker

\* C39: constructing an assistant, the first or a later one, resets the
\* transcript file shared by all of them: a file that exists and can be
\* written then holds the marker line and no entry logged before, and the
\* calls that follow only add entries after it, until the next construction
\* or reset; a file that does not exist is not created, and a file that
\* cannot be written keeps the entries it held.
C39_ConstructionClears ==
    /\ [](obs.op = "construct" =>
            /\ history = InitialHistory
            /\ IF obs.transcript.exists /\ env.fsOK
               THEN transcript = [exists |-> TRUE, lines |-> <<ClearedMarker>>]
               ELSE transcript = obs.transcript)
    /\ [][obs'.op \notin {"construct", "reset"} =>
              IsPrefix(transcript.lines, transcript'.lines)]_vars

\* a second assistant constructed after a turn through the first one: the
\* entries of that turn are gone
C39_Witness ==
    /\ obs.op = "construct"
    /\ admins >= 1
    /\ env.fsOK
    /\ Len(obs.transcript.lines) >= 3
    /\ Last(obs.transcript.lines).role = "assistant"
    /\ transcript.lines = <<ClearedMarker>>

\* a send_message call is running
InTurn == pc \in {"first", "dispatch", "followup"}

\* C34: when every request attempt returns or raises and every tool function
\* returns, a send_message call that is running returns, the assistant idle
\* again.  A turn makes at most two get_chat_completion calls, the first
\* and then the follow-up, never the first again, and the attempt in flight
\* of either is at most the max_retries-th: at most 2 * max_retries
\* attempts in a turn.
C34_TurnTerminates ==
    /\ InTurn ~> (pc = "idle" /\ obs.op = "send")
    /\ [](/\ InTurn => obs.op = "send"
          /\ pc = "first" => Len(obs.completions) = 1
          /\ pc = "followup" => Len(obs.completions) = 2
          /\ Len(obs.completions) <= 2
          /\ pc \in {"first", "followup"} =>
                (attempt < max_retries /\ requests = attempt)
          /\ pc \in {"idle", "dispatch"} => (attempt = 0 /\ requests = 0))
    /\ [][/\ pc' = "first" => pc \in {"idle", "first"}
          /\ pc' = "dispatch" => pc \in {"first", "dispatch"}
          /\ pc' = "followup" => pc \in {"dispatch", "followup"}
          /\ (pc' = pc /\ pc \in {"first", "followup"}) => attempt' = attempt + 1]_vars

\* the last attempt of the follow-up call of a turn is in flight
C34_Witness ==
    /\ pc = "followup"
    /\ attempt = max_retries - 1
    /\ Len(waits) = max_retries - 1
    /\ Len(obs.completions) = 2
    /\ obs.calls # <<>>

====
